---- MODULE Spec2Model ----
(***************************************************************************)
(* The FlatBuffers builder (Builder) and table reader (Table) of gomem.     *)
(* Buffers are sequences of bytes; Go index i is element i+1.               *)
(* Go integers are represented by TLA+ integers: a signed value is the      *)
(* integer itself, and its little-endian two's complement bytes come from   *)
(* floor division, so no power of two above 2^30 is ever formed.            *)
(***************************************************************************)
EXTENDS Integers, Sequences, FiniteSets, TLC

\* ------------------------------------------------------------------ bounds
MaxBytes == 64          \* calls that grow the buffer beyond this are not explored
MaxInitialSize == 3     \* NewBuilder(initialSize): initialSize in {0, MaxInitialSize}
MaxCalls == 3           \* Spec, SpecArr: calls explored per behaviour; SpecRel: Retain calls
MaxObjects == 2         \* SpecObj, SpecVt: StartObject calls explored per behaviour
MaxFields == 2          \* SpecObj, SpecVt: numfields passed to StartObject is in 0..MaxFields
MaxSlotWrites == 2      \* SpecObj: non-default slot writes explored per behaviour
MaxRaw == 2             \* SpecPrep, SpecVec: PrependX and Prep calls explored per behaviour
MaxExtra == 3           \* SpecPrep: additionalBytes passed to Prep is in 0..MaxExtra
MaxElems == 10          \* SpecBits: AppendValues appends 0..MaxElems values, or BulkLen
MaxItems == 2           \* SpecRef: strings and vectors built before the object; SpecVec: numElems

\* --------------------------------------------------------------- constants
SizeByte == 1
SizeVOffsetT == 2
SizeSOffsetT == 4
SizeUOffsetT == 4
SizeInt32 == 4
SizeUint32 == 4
VtableMetadataFields == 2
fileIdentifierLength == 4
GrowLimit == 1073741824     \* len & 0xC0000000 != 0  <=>  len >= 2^30

\* ---------------------------------------------------------- byte encoding
Zeros(n) == [i \in 1..n |-> 0]

Min(a, c) == IF a < c THEN a ELSE c

Max(a, c) == IF a > c THEN a ELSE c

\* little-endian two's complement bytes of v, n bytes wide
RECURSIVE LEBytes(_, _)
LEBytes(v, n) == IF n = 0 THEN <<>> ELSE <<v % 256>> \o LEBytes(v \div 256, n - 1)

\* WriteUint8 .. WriteInt64, WriteVOffsetT, WriteSOffsetT, WriteUOffsetT:
\* store v in n bytes at Go index pos of buf
WriteLE(buf, pos, n, v) ==
    LET bs == LEBytes(v, n)
    IN IF pos >= 0 /\ pos + n <= Len(buf)
       THEN SubSeq(buf, 1, pos) \o bs \o SubSeq(buf, pos + n + 1, Len(buf))
       ELSE [i \in 1..Len(buf) |-> IF i > pos /\ i <= pos + n THEN bs[i - pos] ELSE buf[i]]

\* GetUint8 .. GetUint32, GetVOffsetT, GetUOffsetT: unsigned read of n bytes at pos
RECURSIVE GetUnsigned(_, _, _)
GetUnsigned(buf, pos, n) ==
    IF n = 0 THEN 0 ELSE buf[pos + 1] + 256 * GetUnsigned(buf, pos + 1, n - 1)

\* GetInt8 .. GetInt64, GetSOffsetT: signed read of n bytes at pos
RECURSIVE GetSigned(_, _, _)
GetSigned(buf, pos, n) ==
    IF n = 1 THEN (IF buf[pos + 1] >= 128 THEN buf[pos + 1] - 256 ELSE buf[pos + 1])
    ELSE buf[pos + 1] + 256 * GetSigned(buf, pos + 1, n - 1)

\* x & y on naturals
RECURSIVE BitAnd(_, _)
BitAnd(x, y) ==
    IF x = 0 \/ y = 0 THEN 0
    ELSE (x % 2) * (y % 2) + 2 * BitAnd(x \div 2, y \div 2)

\* (^v) + 1 on a Go int, reduced to its low 30 bits (the mask size-1 is far below)
TwosComplement(v) == (GrowLimit - (v % GrowLimit)) % GrowLimit

\* ----------------------------------------------------------------- state
VARIABLES Bytes, capBytes, minalign, vtable, objectEnd, vtables, head,
          nested, finished,
          prepMax,      \* the largest size passed to Prep since creation or the last Reset, 1 if none
          panicked,     \* "" while running, else the reason of the panic that ended the last call
          op,           \* the last call: its name and the arguments the properties look at
          objStarted,   \* a StartObject succeeded and no EndObject or Reset followed
          depth,        \* successful Start* calls minus successful End* calls
          finishDone,   \* a Finish completed since creation or the last Reset
          curWrites,    \* <<slot, width, value>> of the non-default slot writes since StartObject
          curN,         \* numfields of the last StartObject
          objs,         \* the objects completed by EndObject since creation or the last Reset
          root,         \* the rootTable of the last completed Finish
          items,        \* the vectors and strings completed since creation or the last Reset
          allocPolicy,  \* how the runtime sizes the slices append allocates
          calls,        \* calls made so far, by kind
          fresh,        \* a second Builder, made by NewBuilder, that is given the calls made after a Reset
          arr,          \* an array builder (BooleanBuilder or BinaryBuilder), err = reason of a panic
          hist,         \* the elements appended to arr since creation or the last NewArray
          made,         \* the arrays NewArray returned, each with the elements appended for it
          room,         \* elements the last Reserve made room for that were not appended yet
          rel           \* the goroutines that run Release on arr

vars == <<Bytes, capBytes, minalign, vtable, objectEnd, vtables, head, nested,
          finished, prepMax, panicked, op, objStarted, depth, finishDone, curWrites,
          curN, objs, root, items, allocPolicy, calls, fresh, arr, hist, made, room,
          rel>>

builderVars == <<Bytes, capBytes, minalign, vtable, objectEnd, vtables, head,
                 nested, finished>>

ghostVars == <<objStarted, depth, finishDone, curWrites, curN, objs, root, items>>

arrayVars == <<arr, hist, made, room, rel>>

\* the Builder struct as a record, err = reason of a panic raised so far,
\* prepMax = the history of the sizes passed to Prep
Builder == [Bytes |-> Bytes, capBytes |-> capBytes, minalign |-> minalign,
            vtable |-> vtable, objectEnd |-> objectEnd, vtables |-> vtables,
            head |-> head, nested |-> nested, finished |-> finished,
            prepMax |-> prepMax, err |-> ""]

\* ----------------------------------------------------------- the builder
NewBuilder(initialSize) ==
    LET n == IF initialSize <= 0 THEN 0 ELSE initialSize
    IN [Bytes |-> Zeros(n), capBytes |-> n, minalign |-> 1, vtable |-> <<>>,
        objectEnd |-> 0, vtables |-> <<>>, head |-> n, nested |-> FALSE,
        finished |-> FALSE, prepMax |-> 1, err |-> ""]

Offset(b) == Len(b.Bytes) - b.head

\* capacity of the slice append returns: at least the length asked for; the
\* runtime may round it up (pol = 1: to the next multiple of 8)
AppendCap(newLen, pol) == IF pol = 0 THEN newLen ELSE ((newLen + 7) \div 8) * 8

\* growLength with the mask 0xE0000000: it refuses lengths from 2^29 on
growLength_Early(n) ==
    IF BitAnd(n, GrowLimit + GrowLimit \div 2) # 0 THEN [err |-> "grow", len |-> n]
    ELSE [err |-> "", len |-> IF n * 2 = 0 THEN 1 ELSE n * 2]

\* growByteBuffer on the length alone, for buffers too long to write out: the
\* panic or the new length. Lengths are below 2^31, so of the mask 0xC0000000
\* only bit 30 can be set
growLength(n) ==
    IF BitAnd(n, GrowLimit) # 0 THEN [err |-> "grow", len |-> n]
    ELSE [err |-> "", len |-> IF n * 2 = 0 THEN 1 ELSE n * 2]

\* growByteBuffer without the copy to the tail half
growByteBuffer_NoCopy(b, pol) ==
    IF b.err # "" THEN b
    ELSE IF Len(b.Bytes) >= GrowLimit THEN [b EXCEPT !.err = "grow"]
    ELSE LET newLen == IF Len(b.Bytes) * 2 = 0 THEN 1 ELSE Len(b.Bytes) * 2
             newCap == IF b.capBytes >= newLen THEN b.capBytes ELSE AppendCap(newLen, pol)
         IN [b EXCEPT !.capBytes = newCap,
                      !.Bytes = b.Bytes \o Zeros(newLen - Len(b.Bytes))]

growByteBuffer(b, pol) ==
    IF b.err # "" THEN b
    ELSE IF Len(b.Bytes) >= GrowLimit THEN [b EXCEPT !.err = "grow"]
    ELSE LET newLen == IF Len(b.Bytes) * 2 = 0 THEN 1 ELSE Len(b.Bytes) * 2
             newCap == IF b.capBytes >= newLen THEN b.capBytes ELSE AppendCap(newLen, pol)
             ext    == b.Bytes \o Zeros(newLen - Len(b.Bytes))
             middle == newLen \div 2
             n      == Min(newLen - middle, middle)
         IN [b EXCEPT !.capBytes = newCap,
                      !.Bytes = [i \in 1..newLen |->
                                   IF i > middle /\ i <= middle + n
                                   THEN ext[i - middle] ELSE ext[i]]]

\* PlaceByte .. PlaceUOffsetT: head is a uint32, a head below 0 stands for the
\* wrapped value 2^32 + head, which is beyond len(Bytes): the slice panics
Place(b, size, x) ==
    IF b.err # "" THEN b
    ELSE LET h == b.head - size
         IN IF h < 0 \/ h + size > Len(b.Bytes)
            THEN [b EXCEPT !.head = h, !.err = "bounds"]
            ELSE [b EXCEPT !.head = h, !.Bytes = WriteLE(b.Bytes, h, size, x)]

PlaceByte(b, x) == Place(b, SizeByte, x)

\* Pad with a loop that starts at 1
RECURSIVE Pad_Short(_, _)
Pad_Short(b, n) == IF n <= 1 THEN b ELSE Pad_Short(PlaceByte(b, 0), n - 1)

RECURSIVE Pad(_, _)
Pad(b, n) == IF n <= 0 THEN b ELSE Pad(PlaceByte(b, 0), n - 1)

\* Pad(n) taken as one step: the n calls of PlaceByte(0), of which the first
\* that finds head at 0 panics
PadZeros(b, n) ==
    IF b.err # "" \/ n <= 0 THEN b
    ELSE LET h == IF n > b.head THEN 0 ELSE b.head - n
             zeroed == SubSeq(b.Bytes, 1, h) \o Zeros(b.head - h)
                           \o SubSeq(b.Bytes, b.head + 1, Len(b.Bytes))
         IN IF n > b.head
            THEN [b EXCEPT !.head = -1, !.Bytes = zeroed, !.err = "bounds"]
            ELSE [b EXCEPT !.head = h, !.Bytes = zeroed]

RECURSIVE PrepGrow(_, _, _)
PrepGrow(b, need, pol) ==
    IF b.err # "" \/ ~(b.head <= need) THEN b
    ELSE LET oldBufSize == Len(b.Bytes)
             g == growByteBuffer(b, pol)
         IN IF g.err # "" THEN g
            ELSE PrepGrow([g EXCEPT !.head = g.head + (Len(g.Bytes) - oldBufSize)], need, pol)

\* the alignment mask taken as size instead of size - 1
alignSizeOf_Mask(b, size, additionalBytes) ==
    BitAnd(TwosComplement(Len(b.Bytes) - b.head + additionalBytes), size)

alignSizeOf(b, size, additionalBytes) ==
    BitAnd(TwosComplement(Len(b.Bytes) - b.head + additionalBytes), size - 1)

Prep(b, size, additionalBytes, pol) ==
    IF b.err # "" THEN b
    ELSE LET b0 == [b EXCEPT !.prepMax = Max(b.prepMax, size)]
             b1 == IF size > b0.minalign THEN [b0 EXCEPT !.minalign = size] ELSE b0
             alignSize == alignSizeOf(b1, size, additionalBytes)
             b2 == PrepGrow(b1, alignSize + size + additionalBytes, pol)
         IN Pad(b2, alignSize)

\* PrependByte, PrependInt8 .. PrependInt64, PrependVOffsetT
Prepend(b, size, x, pol) == Place(Prep(b, size, 0, pol), size, x)

PrependVOffsetT(b, x, pol) == Prepend(b, SizeVOffsetT, x % 65536, pol)

PrependSOffsetT(b, off, pol) ==
    LET b1 == Prep(b, SizeSOffsetT, 0, pol)
    IN IF b1.err # "" THEN b1
       ELSE IF ~(off >= 0 /\ off <= Offset(b1)) THEN [b1 EXCEPT !.err = "offset"]
       ELSE Place(b1, SizeSOffsetT, Offset(b1) - off + SizeSOffsetT)

\* PrependUOffsetT that measures the distance before it aligns
PrependUOffsetT_BeforePrep(b, off, pol) ==
    LET b1 == Prep(b, SizeUOffsetT, 0, pol)
    IN IF b1.err # "" THEN b1
       ELSE IF ~(off <= Offset(b1)) THEN [b1 EXCEPT !.err = "offset"]
       ELSE Place(b1, SizeUOffsetT, Offset(b) - off + SizeUOffsetT)

\* PrependUOffsetT that stores the distance without the 4 bytes of the value
PrependUOffsetT_NoSize(b, off, pol) ==
    LET b1 == Prep(b, SizeUOffsetT, 0, pol)
    IN IF b1.err # "" THEN b1
       ELSE IF ~(off <= Offset(b1)) THEN [b1 EXCEPT !.err = "offset"]
       ELSE Place(b1, SizeUOffsetT, Offset(b1) - off)

PrependUOffsetT(b, off, pol) ==
    LET b1 == Prep(b, SizeUOffsetT, 0, pol)
    IN IF b1.err # "" THEN b1
       ELSE IF ~(off <= Offset(b1)) THEN [b1 EXCEPT !.err = "offset"]
       ELSE Place(b1, SizeUOffsetT, Offset(b1) - off + SizeUOffsetT)

assertNested(b) ==
    IF b.err = "" /\ ~b.nested THEN [b EXCEPT !.err = "notnested"] ELSE b

\* assertNotNested without its check
assertNotNested_Off(b) == b

assertNotNested(b) ==
    IF b.err = "" /\ b.nested THEN [b EXCEPT !.err = "nested"] ELSE b

assertFinished(b) ==
    IF b.err = "" /\ ~b.finished THEN [b EXCEPT !.err = "notfinished"] ELSE b

\* Reset that keeps the history of committed vtables
Reset_KeepHistory(b) ==
    [b EXCEPT !.Bytes = b.Bytes \o Zeros(b.capBytes - Len(b.Bytes)),
              !.vtable = <<>>,
              !.head = b.capBytes, !.minalign = 1, !.prepMax = 1,
              !.nested = FALSE, !.finished = FALSE]

\* Reset that keeps the working vtable
Reset_KeepVtable(b) ==
    [b EXCEPT !.Bytes = b.Bytes \o Zeros(b.capBytes - Len(b.Bytes)),
              !.vtables = <<>>,
              !.head = b.capBytes, !.minalign = 1, !.prepMax = 1,
              !.nested = FALSE, !.finished = FALSE]

\* Reset that keeps the finished flag
Reset_KeepFinished(b) ==
    [b EXCEPT !.Bytes = b.Bytes \o Zeros(b.capBytes - Len(b.Bytes)),
              !.vtables = <<>>, !.vtable = <<>>,
              !.head = b.capBytes, !.minalign = 1, !.prepMax = 1,
              !.nested = FALSE]

Reset(b) ==
    [b EXCEPT !.Bytes = b.Bytes \o Zeros(b.capBytes - Len(b.Bytes)),
              !.vtables = <<>>, !.vtable = <<>>,
              !.head = b.capBytes, !.minalign = 1, !.prepMax = 1,
              !.nested = FALSE, !.finished = FALSE]

StartObject(b, numfields) ==
    LET b1 == assertNotNested(b)
    IN IF b1.err # "" THEN b1
       ELSE [b1 EXCEPT !.nested = TRUE, !.vtable = Zeros(numfields),
                       !.objectEnd = Offset(b1)]

Slot(b, slotnum) ==
    IF b.err # "" THEN b
    ELSE IF slotnum < 0 \/ slotnum >= Len(b.vtable) THEN [b EXCEPT !.err = "slot"]
    ELSE [b EXCEPT !.vtable[slotnum + 1] = Offset(b)]

\* the slot write elided when the value is zero, whatever the default
PrependSlot_ZeroDefault(b, size, o, x, d, pol) ==
    IF x # 0 THEN Slot(Prepend(b, size, x, pol), o) ELSE b

\* the slot write never elided
PrependSlot_Always(b, size, o, x, d, pol) == Slot(Prepend(b, size, x, pol), o)

\* PrependByteSlot, PrependInt8Slot .. PrependInt64Slot
PrependSlot(b, size, o, x, d, pol) ==
    IF x # d THEN Slot(Prepend(b, size, x, pol), o) ELSE b

PrependUOffsetTSlot(b, o, x, d, pol) ==
    IF x # d THEN Slot(PrependUOffsetT(b, x, pol), o) ELSE b

PrependStructSlot(b, voffset, x, d) ==
    IF x # d
    THEN LET b1 == assertNested(b)
         IN IF b1.err # "" THEN b1
            ELSE IF x # Offset(b1) THEN [b1 EXCEPT !.err = "inline"]
            ELSE Slot(b1, voffset)
    ELSE b

\* vtableEqual without the shortcut for two zero entries
vtableEqual_NoZero(a, objectStart, vt2) ==
    IF Len(a) * SizeVOffsetT # Len(vt2) THEN FALSE
    ELSE \A i \in 0..(Len(a) - 1) :
            GetUnsigned(vt2, i * SizeVOffsetT, SizeVOffsetT) = objectStart - a[i + 1]

\* vtableEqual that compares the number of entries only
vtableEqual_LengthOnly(a, objectStart, vt2) == Len(a) * SizeVOffsetT = Len(vt2)

vtableEqual(a, objectStart, vt2) ==
    IF Len(a) * SizeVOffsetT # Len(vt2) THEN FALSE
    ELSE \A i \in 0..(Len(a) - 1) :
            LET x == GetUnsigned(vt2, i * SizeVOffsetT, SizeVOffsetT)
            IN (x = 0 /\ a[i + 1] = 0) \/ x = objectStart - a[i + 1]

\* the committed vtable at tail offset vt2Offset, without its two metadata fields
vt2Of(b, vt2Offset) ==
    LET vt2Start == Len(b.Bytes) - vt2Offset
        vt2Len   == GetUnsigned(b.Bytes, vt2Start, SizeVOffsetT)
        metadata == VtableMetadataFields * SizeVOffsetT
    IN SubSeq(b.Bytes, vt2Start + metadata + 1, vt2Start + vt2Len)

\* the vtable kept with its trailing zero entries
TrimVtable_Off(a) == a

\* the trailing-zero trim of WriteVtable
RECURSIVE TrimVtable(_)
TrimVtable(a) ==
    IF Len(a) > 0 /\ a[Len(a)] = 0 THEN TrimVtable(SubSeq(a, 1, Len(a) - 1)) ELSE a

\* the backward search of WriteVtable through vtables[1..i]
RECURSIVE existingVtableOf(_, _, _)
existingVtableOf(b, objectOffset, i) ==
    IF i = 0 THEN 0
    ELSE IF vtableEqual(b.vtable, objectOffset, vt2Of(b, b.vtables[i])) THEN b.vtables[i]
    ELSE existingVtableOf(b, objectOffset, i - 1)

\* the loop of WriteVtable that writes the field entries i, i-1, .. 1
RECURSIVE WriteEntries(_, _, _, _)
WriteEntries(b, objectOffset, i, pol) ==
    IF i = 0 \/ b.err # "" THEN b
    ELSE LET off == IF b.vtable[i] # 0 THEN objectOffset - b.vtable[i] ELSE 0
         IN WriteEntries(PrependVOffsetT(b, off, pol), objectOffset, i - 1, pol)

\* the end of the new-vtable branch without the append to the history
StoreNewVtable_Forget(b, objectOffset) ==
    IF b.err # "" THEN [b |-> b, n |-> 0]
    ELSE LET objectStart == Len(b.Bytes) - objectOffset
         IN [b |-> [b EXCEPT
                     !.Bytes = WriteLE(b.Bytes, objectStart, SizeSOffsetT,
                                       Offset(b) - objectOffset),
                     !.vtable = <<>>],
             n |-> objectOffset]

\* the end of WriteVtable's new-vtable branch: the object's vtable pointer is
\* patched and the vtable is remembered for deduplication
StoreNewVtable(b, objectOffset) ==
    IF b.err # "" THEN [b |-> b, n |-> 0]
    ELSE LET objectStart == Len(b.Bytes) - objectOffset
         IN [b |-> [b EXCEPT
                     !.Bytes = WriteLE(b.Bytes, objectStart, SizeSOffsetT,
                                       Offset(b) - objectOffset),
                     !.vtables = Append(b.vtables, Offset(b)),
                     !.vtable = <<>>],
             n |-> objectOffset]

\* WriteVtable's new-vtable branch with a length field that counts the written
\* fields only
WriteNewVtable_CountWritten(b, objectOffset, pol) ==
    LET objectSize == objectOffset - b.objectEnd
        written == Cardinality({i \in 1..Len(b.vtable) : b.vtable[i] # 0})
        vBytes == (written + VtableMetadataFields) * SizeVOffsetT
    IN StoreNewVtable(
           PrependVOffsetT(
               PrependVOffsetT(WriteEntries(b, objectOffset, Len(b.vtable), pol),
                               objectSize, pol),
               vBytes, pol),
           objectOffset)

\* WriteVtable once no committed vtable matched: the entries, then the two
\* metadata fields
WriteNewVtable(b, objectOffset, pol) ==
    LET objectSize == objectOffset - b.objectEnd
        vBytes == (Len(b.vtable) + VtableMetadataFields) * SizeVOffsetT
    IN StoreNewVtable(
           PrependVOffsetT(
               PrependVOffsetT(WriteEntries(b, objectOffset, Len(b.vtable), pol),
                               objectSize, pol),
               vBytes, pol),
           objectOffset)

\* the duplicate branch with the matched vtable appended to the history again
ReuseVtable_Remember(b, objectOffset, existingVtable) ==
    LET objectStart == Len(b.Bytes) - objectOffset
    IN [b |-> [b EXCEPT
                !.head = objectStart,
                !.Bytes = WriteLE(b.Bytes, objectStart, SizeSOffsetT,
                                  existingVtable - objectOffset),
                !.vtables = Append(b.vtables, existingVtable),
                !.vtable = <<>>],
        n |-> objectOffset]

\* the duplicate branch that rewinds past the placeholder of the vtable pointer
ReuseVtable_RewindField(b, objectOffset, existingVtable) ==
    LET objectStart == Len(b.Bytes) - objectOffset + SizeSOffsetT
    IN [b |-> [b EXCEPT
                !.head = objectStart,
                !.Bytes = WriteLE(b.Bytes, objectStart, SizeSOffsetT,
                                  existingVtable - objectOffset),
                !.vtable = <<>>],
        n |-> objectOffset]

\* WriteVtable once a committed vtable matched: the new one is dropped and the
\* object points at the old one
ReuseVtable(b, objectOffset, existingVtable) ==
    LET objectStart == Len(b.Bytes) - objectOffset
    IN [b |-> [b EXCEPT
                !.head = objectStart,
                !.Bytes = WriteLE(b.Bytes, objectStart, SizeSOffsetT,
                                  existingVtable - objectOffset),
                !.vtable = <<>>],
        n |-> objectOffset]

\* WriteVtable after the placeholder of the vtable pointer is prepended
WriteVtableAt(b, pol) ==
    IF b.err # "" THEN [b |-> b, n |-> 0]
    ELSE LET objectOffset == Offset(b)
             trimmed == [b EXCEPT !.vtable = TrimVtable(b.vtable)]
             existingVtable == existingVtableOf(trimmed, objectOffset, Len(b.vtables))
         IN IF existingVtable = 0
            THEN WriteNewVtable(trimmed, objectOffset, pol)
            ELSE ReuseVtable(trimmed, objectOffset, existingVtable)

WriteVtable(b, pol) == WriteVtableAt(PrependSOffsetT(b, 0, pol), pol)

EndObject(b, pol) ==
    LET b1 == assertNested(b)
    IN IF b1.err # "" THEN [b |-> b1, n |-> 0]
       ELSE LET r == WriteVtable(b1, pol)
            IN IF r.b.err # "" THEN r
               ELSE [b |-> [r.b EXCEPT !.nested = FALSE], n |-> r.n]

\* StartVector that makes room for the payload and its alignment only
StartVector_NoHeader(b, elemSize, numElems, alignment, pol) ==
    LET b1 == assertNotNested(b)
    IN IF b1.err # "" THEN [b |-> b1, n |-> 0]
       ELSE LET b3 == Prep([b1 EXCEPT !.nested = TRUE], alignment, elemSize * numElems, pol)
            IN [b |-> b3, n |-> Offset(b3)]

StartVector(b, elemSize, numElems, alignment, pol) ==
    LET b1 == assertNotNested(b)
    IN IF b1.err # "" THEN [b |-> b1, n |-> 0]
       ELSE LET b2 == Prep([b1 EXCEPT !.nested = TRUE], SizeUint32, elemSize * numElems, pol)
                b3 == Prep(b2, alignment, elemSize * numElems, pol)
            IN [b |-> b3, n |-> Offset(b3)]

\* EndVector that writes the count before checking that a vector is open
EndVector_LateCheck(b, vectorNumElems) ==
    LET b1 == Place(b, SizeUOffsetT, vectorNumElems)
        b2 == assertNested(b1)
    IN IF b2.err # "" THEN [b |-> b2, n |-> 0]
       ELSE [b |-> [b2 EXCEPT !.nested = FALSE], n |-> Offset(b2)]

EndVector(b, vectorNumElems) ==
    LET b1 == assertNested(b)
        b2 == Place(b1, SizeUOffsetT, vectorNumElems)
    IN IF b2.err # "" THEN [b |-> b2, n |-> 0]
       ELSE [b |-> [b2 EXCEPT !.nested = FALSE], n |-> Offset(b2)]

\* copy(b.Bytes[b.head:b.head+l], s) after b.head -= l
CopyIn(b, s) ==
    IF b.err # "" THEN b
    ELSE LET h == b.head - Len(s)
         IN IF h < 0 THEN [b EXCEPT !.head = h, !.err = "bounds"]
            ELSE [b EXCEPT !.head = h,
                           !.Bytes = [i \in 1..Len(b.Bytes) |->
                                        IF i > h /\ i <= h + Len(s) THEN s[i - h]
                                        ELSE b.Bytes[i]]]

\* CreateString that neither reserves nor writes the terminator
CreateString_NoTerminator(b, s, pol) ==
    LET b1 == assertNotNested(b)
    IN IF b1.err # "" THEN [b |-> b1, n |-> 0]
       ELSE EndVector(CopyIn(Prep([b1 EXCEPT !.nested = TRUE], SizeUOffsetT,
                                  Len(s) * SizeByte, pol), s), Len(s))

\* CreateString that counts the terminator in the recorded length
CreateString_CountsTerminator(b, s, pol) ==
    LET b1 == assertNotNested(b)
    IN IF b1.err # "" THEN [b |-> b1, n |-> 0]
       ELSE LET b2 == Prep([b1 EXCEPT !.nested = TRUE], SizeUOffsetT,
                           (Len(s) + 1) * SizeByte, pol)
                b3 == PlaceByte(b2, 0)
            IN EndVector(CopyIn(b3, s), Len(s) + 1)

\* CreateString and CreateByteString
CreateString(b, s, pol) ==
    LET b1 == assertNotNested(b)
    IN IF b1.err # "" THEN [b |-> b1, n |-> 0]
       ELSE LET b2 == Prep([b1 EXCEPT !.nested = TRUE], SizeUOffsetT,
                           (Len(s) + 1) * SizeByte, pol)
                b3 == PlaceByte(b2, 0)
            IN EndVector(CopyIn(b3, s), Len(s))

CreateByteVector(b, v, pol) ==
    LET b1 == assertNotNested(b)
    IN IF b1.err # "" THEN [b |-> b1, n |-> 0]
       ELSE LET b2 == Prep([b1 EXCEPT !.nested = TRUE], SizeUOffsetT,
                           Len(v) * SizeByte, pol)
            IN EndVector(CopyIn(b2, v), Len(v))

\* Finish without the alignment of the root pointer to minalign
Finish_NoPrep(b, rootTable, pol) ==
    LET b1 == assertNotNested(b)
        b3 == PrependUOffsetT(b1, rootTable, pol)
    IN IF b3.err # "" THEN b3 ELSE [b3 EXCEPT !.finished = TRUE]

Finish(b, rootTable, pol) ==
    LET b1 == assertNotNested(b)
        b2 == Prep(b1, b1.minalign, SizeUOffsetT, pol)
        b3 == PrependUOffsetT(b2, rootTable, pol)
    IN IF b3.err # "" THEN b3 ELSE [b3 EXCEPT !.finished = TRUE]

\* the loop of FinishWithFileIdentifier placing fid[i], fid[i-1], .. fid[0]
RECURSIVE PlaceFid(_, _, _)
PlaceFid(b, fid, i) ==
    IF i = 0 THEN b ELSE PlaceFid(PlaceByte(b, fid[i]), fid, i - 1)

\* fid = <<>> stands for both a nil and an empty identifier
FinishWithFileIdentifier(b, rootTable, fid, pol) ==
    IF Len(fid) # fileIdentifierLength THEN [b EXCEPT !.err = "fid"]
    ELSE LET b1 == Prep(b, b.minalign, SizeInt32 + fileIdentifierLength, pol)
             b2 == PlaceFid(b1, fid, fileIdentifierLength)
         IN Finish(b2, rootTable, pol)

\* the slice FinishedBytes returns; <<>> with err set when it panics
FinishedBytes(b) ==
    LET b1 == assertFinished(b)
    IN IF b1.err # "" THEN [b |-> b1, bytes |-> <<>>]
       ELSE [b |-> b1, bytes |-> SubSeq(b1.Bytes, b1.head + 1, Len(b1.Bytes))]

\* -------------------------------------------------------- the table reader
\* Table{Bytes: buf, Pos: pos} is the record [Bytes |-> buf, Pos |-> pos]
\* Offset that also accepts the slot equal to the length of the vtable
TableOffset_Inclusive(t, vtableOffset) ==
    LET vt == t.Pos - GetSigned(t.Bytes, t.Pos, SizeSOffsetT)
    IN IF vtableOffset <= GetUnsigned(t.Bytes, vt, SizeVOffsetT)
       THEN GetUnsigned(t.Bytes, vt + vtableOffset, SizeVOffsetT)
       ELSE 0

\* the positions of the vtable entry Offset reads: those of the 16 bits at
\* vtable + vtableOffset when the slot passes the length check, none otherwise
OffsetReads(t, vtableOffset) ==
    LET vt == t.Pos - GetSigned(t.Bytes, t.Pos, SizeSOffsetT)
    IN IF vtableOffset < GetUnsigned(t.Bytes, vt, SizeVOffsetT)
       THEN <<vt + vtableOffset, vt + vtableOffset + 1>>
       ELSE <<>>

TableOffset(t, vtableOffset) ==
    LET vt == t.Pos - GetSigned(t.Bytes, t.Pos, SizeSOffsetT)
    IN IF vtableOffset < GetUnsigned(t.Bytes, vt, SizeVOffsetT)
       THEN GetUnsigned(t.Bytes, vt + vtableOffset, SizeVOffsetT)
       ELSE 0

Indirect(t, off) == off + GetUnsigned(t.Bytes, off, SizeUOffsetT)

\* off is a position in the buffer
ByteVector(t, off) ==
    LET at == off + GetUnsigned(t.Bytes, off, SizeUOffsetT)
        length == GetUnsigned(t.Bytes, at, SizeUOffsetT)
        start == at + SizeUOffsetT
    IN SubSeq(t.Bytes, start + 1, start + length)

\* byteSliceToString keeps the bytes
String(t, off) == ByteVector(t, off)

\* off is relative to the table
VectorLen(t, off) ==
    LET at == off + t.Pos
    IN GetUnsigned(t.Bytes, at + GetUnsigned(t.Bytes, at, SizeUOffsetT), SizeUOffsetT)

\* GetInt8Slot, GetInt16Slot, GetInt32Slot, GetInt64Slot (size 1, 2, 4, 8)
GetSlot(t, size, slot, d) ==
    LET off == TableOffset(t, slot)
    IN IF off = 0 THEN d ELSE GetSigned(t.Bytes, t.Pos + off, size)

\* MutateByte .. MutateInt64: store n in size bytes at position off
Mutate(t, size, off, n) == [t EXCEPT !.Bytes = WriteLE(t.Bytes, off, size, n)]

\* a MutateXSlot whose field is found whatever the vtable says
MutateSlot_NoCheck(t, size, slot, n) ==
    [t |-> Mutate(t, size, t.Pos + TableOffset(t, slot), n), ok |-> TRUE]

\* MutateByteSlot .. MutateInt64Slot: the table after the call and what it returned
MutateSlot(t, size, slot, n) ==
    LET off == TableOffset(t, slot)
    IN IF off # 0 THEN [t |-> Mutate(t, size, t.Pos + off, n), ok |-> TRUE]
       ELSE [t |-> t, ok |-> FALSE]

\* ------------------------------------------------------ the array builders
minBuilderCapacity == 32

\* a number of elements that does not fit the smallest BooleanBuilder
BulkLen == minBuilderCapacity + 1

\* capacities beyond this are not explored
MaxCapacity == 8 * minBuilderCapacity

RECURSIVE Pow2(_)
Pow2(n) == IF n = 0 THEN 1 ELSE 2 * Pow2(n - 1)

\* bitutil.CeilByte: size rounded up to a multiple of 8
CeilByte(size) == ((size + 7) \div 8) * 8

\* arrow.BooleanTraits.BytesRequired: the bytes that hold n bits
BytesRequired(n) == CeilByte(n) \div 8

\* the smallest power of two that is at least x, counting up from p
RECURSIVE PowerOf2From(_, _)
PowerOf2From(p, x) == IF p >= x THEN p ELSE PowerOf2From(2 * p, x)

\* bitutil.NextPowerOf2: the smallest power of two above x (strict), or the
\* smallest one that is at least x
NextPowerOf2(x, strict) == PowerOf2From(1, IF strict THEN x + 1 ELSE x)

\* bitutil.BitIsSet, as 0 or 1
BitOf(buf, i) == (buf[i \div 8 + 1] \div Pow2(i % 8)) % 2

\* bitutil.SetBit, bitSet |= bitutil.BitMask[i]
SetBit(buf, i) ==
    [buf EXCEPT ![i \div 8 + 1] = IF (@ \div Pow2(i % 8)) % 2 = 1 THEN @ ELSE @ + Pow2(i % 8)]

\* bitutil.ClearBit, bitSet &= bitutil.FlippedBitMask[i]
ClearBit(buf, i) ==
    [buf EXCEPT ![i \div 8 + 1] = IF (@ \div Pow2(i % 8)) % 2 = 1 THEN @ - Pow2(i % 8) ELSE @]

\* bitutil.SetBitTo
SetBitTo(buf, i, val) == IF val THEN SetBit(buf, i) ELSE ClearBit(buf, i)

\* bitutil.CountSetBits(buf, 0, n)
CountSetBits(buf, n) == Cardinality({i \in 0..(n - 1) : BitOf(buf, i) = 1})

\* memory.Buffer.Resize on memory of the Go allocator: the bytes kept, zeros
\* for the bytes gained
ResizeBuffer(buf, n) == [i \in 1..n |-> IF i <= Len(buf) THEN buf[i] ELSE 0]

\* NewBooleanBuilder and NewBinaryBuilder; err = reason of a panic, resizes =
\* calls of Resize so far, strict = how NextPowerOf2 rounds a power of two
NewArrayBuilder(kind, strict) ==
    [kind |-> kind, strict |-> strict, refCount |-> 1,
     hasBitmap |-> FALSE, nullBitmap |-> <<>>, nulls |-> 0, length |-> 0, capacity |-> 0,
     hasData |-> kind = "binary", hasValues |-> kind = "binary",
     data |-> <<>>, offsets |-> <<>>, values |-> <<>>,
     resizes |-> 0, err |-> ""]

\* builder.init
builderInit(b, capacity) ==
    [b EXCEPT !.hasBitmap = TRUE,
              !.nullBitmap = Zeros(CeilByte(capacity) \div 8),
              !.capacity = capacity]

\* BooleanBuilder.init and BinaryBuilder.init
init(b, capacity) ==
    IF b.kind = "bool"
    THEN [builderInit(b, capacity) EXCEPT !.hasData = TRUE,
                                          !.data = Zeros(BytesRequired(capacity))]
    ELSE builderInit(b, capacity)

\* builder.reset without the reset of the length
builderReset_KeepLength(b) ==
    [b EXCEPT !.hasBitmap = FALSE, !.nullBitmap = <<>>, !.nulls = 0, !.capacity = 0]

\* builder.reset
builderReset(b) ==
    [b EXCEPT !.hasBitmap = FALSE, !.nullBitmap = <<>>, !.nulls = 0, !.length = 0,
              !.capacity = 0]

\* builder.resize
builderResize(b, newBits) ==
    IF ~b.hasBitmap THEN init(b, newBits)
    ELSE [b EXCEPT
            !.nullBitmap = ResizeBuffer(@, CeilByte(newBits) \div 8),
            !.capacity = newBits,
            !.length = IF newBits < b.length THEN newBits ELSE @,
            !.nulls = IF newBits < b.length
                      THEN newBits - CountSetBits(b.nullBitmap, newBits) ELSE @]

\* BooleanBuilder.Resize
BooleanResize(b, n) ==
    IF b.capacity = 0 THEN init(b, Max(n, minBuilderCapacity))
    ELSE [builderResize(b, Max(n, minBuilderCapacity)) EXCEPT
            !.data = ResizeBuffer(@, BytesRequired(Max(n, minBuilderCapacity)))]

\* BinaryBuilder.Resize
BinaryResize(b, n) == builderResize(b, n)

\* Resize of either builder
Resize(b, n) ==
    IF b.kind = "bool" THEN BooleanResize([b EXCEPT !.resizes = @ + 1], n)
    ELSE BinaryResize([b EXCEPT !.resizes = @ + 1], n)

\* builder.reserve that doubles the capacity, whatever is asked for
reserve_Doubling(b, elements) ==
    IF b.length + elements > b.capacity
    THEN Resize(b, NextPowerOf2(b.capacity + 1, b.strict))
    ELSE b

\* builder.reserve, called by Reserve with the builder's Resize
reserve(b, elements) ==
    IF b.length + elements > b.capacity
    THEN Resize(b, NextPowerOf2(b.length + elements, b.strict))
    ELSE b

\* an index into the bitmap is checked by the runtime
Indexed(b, i) == IF i \div 8 < Len(b.nullBitmap) THEN b ELSE [b EXCEPT !.err = "index"]

\* builder.UnsafeAppendBoolToBitmap
UnsafeAppendBoolToBitmap(b, isValid) ==
    IF isValid
    THEN IF Indexed(b, b.length).err # "" THEN Indexed(b, b.length)
         ELSE [b EXCEPT !.nullBitmap = SetBit(@, b.length), !.length = @ + 1]
    ELSE [b EXCEPT !.nulls = @ + 1, !.length = @ + 1]

\* BooleanBuilder.UnsafeAppend
UnsafeAppend(b, v) ==
    IF Indexed(b, b.length).err # "" \/ b.length \div 8 >= Len(b.data)
    THEN [b EXCEPT !.err = "index"]
    ELSE [b EXCEPT !.nullBitmap = SetBit(@, b.length),
                   !.data = SetBitTo(@, b.length, v),
                   !.length = @ + 1]

\* appendNextOffset that records the number of elements, not of bytes
appendNextOffset_Elements(b) == [b EXCEPT !.offsets = Append(@, b.length)]

\* BinaryBuilder.appendNextOffset
appendNextOffset(b) == [b EXCEPT !.offsets = Append(@, Len(b.values))]

\* Append of either builder, after Reserve(1)
AppendReserved(b, v) ==
    IF b.kind = "bool" THEN UnsafeAppend(b, v)
    ELSE UnsafeAppendBoolToBitmap(
             [appendNextOffset(b) EXCEPT !.values = @ \o v], TRUE)

\* BooleanBuilder.Append and BinaryBuilder.Append
AppendValue(b, v) == AppendReserved(reserve(b, 1), v)

\* AppendNull of either builder, after Reserve(1)
AppendNullReserved(b) ==
    IF b.kind = "bool" THEN UnsafeAppendBoolToBitmap(b, FALSE)
    ELSE UnsafeAppendBoolToBitmap(appendNextOffset(b), FALSE)

\* BooleanBuilder.AppendNull and BinaryBuilder.AppendNull
AppendNull(b) == AppendNullReserved(reserve(b, 1))

\* BinaryBuilder.Value: the bytes from the offset of element i to the offset
\* of the next element, or to the end of the values for the last element
Value(b, i) ==
    LET start == b.offsets[i + 1]
        end == IF i = b.length - 1 THEN Len(b.values) ELSE b.offsets[i + 2]
    IN SubSeq(b.values, start + 1, end)

\* BinaryBuilder.DataLen
DataLen(b) == Len(b.values)

\* bitutil.SetBit on the bits from .. to - 1
RECURSIVE SetRange(_, _, _)
SetRange(buf, from, to) ==
    IF from >= to THEN buf ELSE SetRange(SetBit(buf, from), from + 1, to)

\* memory.Set(buf[start:start+n], c)
MemorySet(buf, start, n, c) ==
    [i \in 1..Len(buf) |-> IF i > start /\ i <= start + n THEN c ELSE buf[i]]

\* unsafeSetValid without the loop over the trailing bits
SetValidPadded_NoTrailing(b, length, padToByte) ==
    [b EXCEPT
       !.nullBitmap =
           MemorySet(SetRange(@, b.length, b.length + padToByte),
                     (b.length + padToByte) \div 8, (length - padToByte) \div 8, 255),
       !.length = @ + length]

\* unsafeSetValid once padToByte is known
SetValidPadded(b, length, padToByte) ==
    [b EXCEPT
       !.nullBitmap =
           SetRange(
               MemorySet(SetRange(@, b.length, b.length + padToByte),
                         (b.length + padToByte) \div 8, (length - padToByte) \div 8, 255),
               b.length + padToByte + ((length - padToByte) \div 8) * 8,
               b.length + length),
       !.length = @ + length]

\* builder.unsafeSetValid
unsafeSetValid(b, length) ==
    IF (b.length + length - 1) \div 8 >= Len(b.nullBitmap) THEN [b EXCEPT !.err = "index"]
    ELSE SetValidPadded(b, length,
                        IF Min(8 - (b.length % 8), length) = 8 THEN 0
                        ELSE Min(8 - (b.length % 8), length))

\* the loop of unsafeAppendBoolsToBitmap from valid[k] on, and the store that
\* follows it
RECURSIVE AppendBools(_, _, _, _, _, _)
AppendBools(b, valid, k, byteOffset, bitOffset, bitSet) ==
    IF b.err # "" THEN b
    ELSE IF k > Len(valid)
    THEN [b EXCEPT !.nullBitmap = IF bitOffset # 0 THEN [@ EXCEPT ![byteOffset + 1] = bitSet]
                                  ELSE @,
                   !.length = @ + Len(valid)]
    ELSE IF bitOffset = 8
    THEN IF byteOffset + 1 >= Len(b.nullBitmap) THEN [b EXCEPT !.err = "index"]
         ELSE AppendBools([b EXCEPT !.nullBitmap[byteOffset + 1] = bitSet], valid, k,
                          byteOffset + 1, 0, b.nullBitmap[byteOffset + 2])
    ELSE IF valid[k]
    THEN AppendBools(b, valid, k + 1, byteOffset, bitOffset + 1,
                     IF (bitSet \div Pow2(bitOffset)) % 2 = 1 THEN bitSet
                     ELSE bitSet + Pow2(bitOffset))
    ELSE AppendBools([b EXCEPT !.nulls = @ + 1], valid, k + 1, byteOffset, bitOffset + 1,
                     IF (bitSet \div Pow2(bitOffset)) % 2 = 1 THEN bitSet - Pow2(bitOffset)
                     ELSE bitSet)

\* builder.unsafeAppendBoolsToBitmap
unsafeAppendBoolsToBitmap(b, valid, length) ==
    IF Len(valid) = 0 THEN unsafeSetValid(b, length)
    ELSE IF b.length \div 8 >= Len(b.nullBitmap) THEN [b EXCEPT !.err = "index"]
    ELSE AppendBools(b, valid, 1, b.length \div 8, b.length % 8,
                     b.nullBitmap[b.length \div 8 + 1])

\* the loop of BooleanBuilder.AppendValues over v[k..]
RECURSIVE SetValues(_, _, _, _)
SetValues(data, length, v, k) ==
    IF k > Len(v) THEN data
    ELSE SetValues(SetBitTo(data, length + k - 1, v[k]), length, v, k + 1)

\* the loop of BinaryBuilder.AppendValues over v[k..]
RECURSIVE AppendEach(_, _, _)
AppendEach(b, v, k) ==
    IF k > Len(v) THEN b
    ELSE AppendEach([appendNextOffset(b) EXCEPT !.values = @ \o v[k]], v, k + 1)

\* AppendValues of either builder, after Reserve(len(v))
AppendValuesReserved(b, v, valid) ==
    IF b.kind = "bool"
    THEN IF (b.length + Len(v) - 1) \div 8 >= Len(b.data) THEN [b EXCEPT !.err = "index"]
         ELSE unsafeAppendBoolsToBitmap(
                  [b EXCEPT !.data = SetValues(@, b.length, v, 1)], valid, Len(v))
    ELSE unsafeAppendBoolsToBitmap(AppendEach(b, v, 1), valid, Len(v))

\* BooleanBuilder.AppendValues and BinaryBuilder.AppendValues
AppendValues(b, v, valid) ==
    IF Len(v) # Len(valid) /\ Len(valid) # 0 THEN [b EXCEPT !.err = "valid"]
    ELSE IF Len(v) = 0 THEN b
    ELSE AppendValuesReserved(reserve(b, Len(v)), v, valid)

\* the Data that newData hands to the array: length, null count and buffers
NewData(b, data, offsets, values) ==
    [kind |-> b.kind, length |-> b.length, nulls |-> b.nulls,
     nullBitmap |-> b.nullBitmap, data |-> data, offsets |-> offsets, values |-> values]

\* BooleanBuilder.newData
BooleanNewData(b) ==
    [a |-> NewData(b,
                   IF BytesRequired(b.length) > 0 /\ BytesRequired(b.length) < Len(b.data)
                   THEN ResizeBuffer(b.data, BytesRequired(b.length)) ELSE b.data,
                   <<>>, <<>>),
     b |-> [builderReset(b) EXCEPT !.hasData = FALSE, !.data = <<>>]]

\* BinaryBuilder.newData, after appendNextOffset
BinaryNewData(b) ==
    [a |-> NewData(b, <<>>, b.offsets, b.values),
     b |-> [builderReset(b) EXCEPT !.offsets = <<>>, !.values = <<>>]]

\* BooleanBuilder.NewArray and BinaryBuilder.NewArray
NewArray(b) ==
    IF b.kind = "bool" THEN BooleanNewData(b) ELSE BinaryNewData(appendNextOffset(b))

\* the test of Release on the count read before the decrement
ReachedZero_Loaded(loaded, added) == loaded = 1

\* the test of Release: atomic.AddInt64(&b.refCount, -1) == 0
ReachedZero(loaded, added) == added = 0

\* the buffers Release frees, in the order it frees them
BuffersOf(kind) ==
    IF kind = "bool" THEN <<"nullBitmap", "data">> ELSE <<"nullBitmap", "offsets", "values">>

\* no goroutine runs Release
NoRelease ==
    [pc |-> <<>>, loaded |-> <<>>, added |-> <<>>, freed |-> <<>>, count |-> 0, held |-> {}]

\* ------------------------------------------------------------ the callers
Widths == {1, 2, 4, 8}

\* the values a caller passes for a field of the given width (value or default)
Values(size) ==
    CASE size = 1 -> {0, -2}
      [] size = 2 -> {0, 513}
      [] size = 4 -> {0, 67305985}
      [] OTHER    -> {0, -259}

\* a caller that passes any of the values as the value of a field
AnyValue == [size \in Widths |-> Values(size)]

\* a caller that passes any of the values as the default of a field
AnyDefault == [size \in Widths |-> Values(size)]

Strings == {<<>>, <<97>>, <<104, 101, 108, 108, 111>>}

FileIdentifiers == {<<>>, <<70, 73, 68, 49>>}

AllocPolicies == {0, 1}

PanicReasons == {"nested", "notnested", "notfinished", "fid", "offset", "slot",
                 "inline", "bounds", "grow"}

TypeOK ==
    /\ Bytes \in Seq(0..255)
    /\ Len(Bytes) <= capBytes
    /\ nested \in BOOLEAN /\ finished \in BOOLEAN
    /\ panicked \in {""} \cup PanicReasons

\* a Builder and an array builder after construction
InitAll(InitialSizes, FreshSizes, Policies, Kinds, Roundings) ==
    \E initialSize \in InitialSizes, freshSize \in FreshSizes, pol \in Policies :
        LET b == NewBuilder(initialSize)
        IN /\ fresh = NewBuilder(freshSize)
           /\ \E kind \in Kinds, strict \in Roundings : arr = NewArrayBuilder(kind, strict)
           /\ hist = <<>> /\ made = <<>> /\ room = 0 /\ rel = NoRelease
           /\ Bytes = b.Bytes /\ capBytes = b.capBytes /\ minalign = b.minalign
           /\ vtable = b.vtable /\ objectEnd = b.objectEnd /\ vtables = b.vtables
           /\ head = b.head /\ nested = b.nested /\ finished = b.finished
           /\ prepMax = b.prepMax
           /\ panicked = ""
           /\ op = [name |-> "NewBuilder", size |-> initialSize, extra |-> 0,
                   elided |-> FALSE, ret |-> <<>>, n |-> 0, obj |-> 0, ok |-> FALSE]
           /\ objStarted = FALSE /\ depth = 0 /\ finishDone = FALSE
           /\ curWrites = <<>> /\ curN = 0 /\ objs = <<>> /\ root = 0
           /\ items = <<>>
           /\ allocPolicy = pol
           /\ calls = [total |-> 0, objects |-> 0, writes |-> 0, raw |-> 0, items |-> 0]

InitBuilders(InitialSizes, FreshSizes, Policies) ==
    InitAll(InitialSizes, FreshSizes, Policies, {"bool"}, {FALSE})

InitWith(InitialSizes, Policies) == InitBuilders(InitialSizes, {0}, Policies)

Init == InitWith({0, MaxInitialSize}, AllocPolicies)

\* both builders after the call, as left by a return or by a panic
CommitBoth(r, f) ==
    /\ panicked = ""
    /\ Len(r.Bytes) <= MaxBytes \/ Len(r.Bytes) = Len(Bytes)
    /\ Len(f.Bytes) <= MaxBytes
    /\ fresh' = f
    /\ Bytes' = r.Bytes /\ capBytes' = r.capBytes /\ minalign' = r.minalign
    /\ vtable' = r.vtable /\ objectEnd' = r.objectEnd /\ vtables' = r.vtables
    /\ head' = r.head /\ nested' = r.nested /\ finished' = r.finished
    /\ prepMax' = r.prepMax
    /\ panicked' = r.err
    /\ UNCHANGED <<allocPolicy, arrayVars>>

\* the builder after the call, the second builder not being called
Commit(r) == CommitBoth(r, fresh)

Call(name, size, extra, elided) ==
    op' = [name |-> name, size |-> size, extra |-> extra, elided |-> elided,
           ret |-> <<>>, n |-> 0, obj |-> 0, ok |-> FALSE]

\* a call that returns bytes
CallRet(name, ret) ==
    op' = [name |-> name, size |-> 0, extra |-> 0, elided |-> FALSE, ret |-> ret,
           n |-> 0, obj |-> 0, ok |-> FALSE]

\* a completed vector or string: the offset the call returned, the count passed
\* to EndVector (the length of the string), and the bytes of a string
Item(kind, off, count, data) == [kind |-> kind, off |-> off, count |-> count, data |-> data]

StartObjectStep(NumFields) ==
    \E numfields \in NumFields :
        LET r == StartObject(Builder, numfields)
        IN /\ Commit(r)
           /\ Call("StartObject", numfields, 0, FALSE)
           /\ IF r.err = ""
              THEN /\ objStarted' = TRUE /\ depth' = depth + 1
                   /\ curWrites' = <<>> /\ curN' = numfields
                   /\ UNCHANGED <<finishDone, objs, root, items>>
              ELSE UNCHANGED ghostVars

\* PrependByteSlot, PrependInt8Slot .. PrependInt64Slot; Budget tells whether
\* one more non-default write is explored
PrependSlotStep(Sizes, Xs, Defaults, Slots, Budget) ==
    \E size \in Sizes, o \in Slots :
      \E x \in Xs[size], d \in Defaults[size] :
        LET r == PrependSlot(Builder, size, o, x, d, allocPolicy)
        IN /\ x # d => Budget
           /\ Commit(r)
           /\ Call("PrependSlot", IF x = d THEN 0 ELSE size, 0, x = d)
           /\ curWrites' = IF r.err = "" /\ x # d
                           THEN Append(curWrites, <<o, size, x>>) ELSE curWrites
           /\ UNCHANGED <<objStarted, depth, finishDone, curN, objs, root, items>>

PrependStructSlotStep(Slots) ==
    \E voffset \in Slots, x \in {0, Offset(Builder)}, d \in {0} :
        LET r == PrependStructSlot(Builder, voffset, x, d)
        IN /\ Commit(r)
           /\ Call("PrependStructSlot", 0, 0, x = d)
           /\ UNCHANGED ghostVars

\* PrependUOffsetTSlot(o, x, 0); a reference written is remembered as
\* <<slot, width, target, "ref">>
PrependUOffsetTSlotStep(Slots, Offs) ==
    \E o \in Slots, x \in Offs :
        LET r == PrependUOffsetTSlot(Builder, o, x, 0, allocPolicy)
        IN /\ Commit(r)
           /\ Call("PrependUOffsetTSlot", IF x = 0 THEN 0 ELSE SizeUOffsetT, 0, x = 0)
           /\ curWrites' = IF r.err = "" /\ x # 0
                           THEN Append(curWrites, <<o, SizeUOffsetT, x, "ref">>)
                           ELSE curWrites
           /\ UNCHANGED <<objStarted, depth, finishDone, curN, objs, root, items>>

EndObjectStep ==
    LET r == EndObject(Builder, allocPolicy)
    IN /\ Commit(r.b)
       /\ Call("EndObject", 0, 0, FALSE)
       /\ IF r.b.err = ""
          THEN /\ objs' = Append(objs, [off |-> r.n, n |-> curN, writes |-> curWrites,
                                        start |-> objectEnd, slots |-> vtable])
               /\ objStarted' = FALSE /\ depth' = depth - 1
               /\ curWrites' = <<>>
               /\ UNCHANGED <<finishDone, curN, root, items>>
          ELSE UNCHANGED ghostVars

StartVectorStep(Shapes) ==
    \E shape \in Shapes :
        LET r == StartVector(Builder, shape[1], shape[2], shape[3], allocPolicy)
        IN /\ Commit(r.b)
           /\ Call("StartVector", shape[3], shape[1] * shape[2], FALSE)
           /\ depth' = IF r.b.err = "" THEN depth + 1 ELSE depth
           /\ UNCHANGED <<objStarted, finishDone, curWrites, curN, objs, root, items>>

EndVectorStep(Counts) ==
    \E vectorNumElems \in Counts :
        LET r == EndVector(Builder, vectorNumElems)
        IN /\ Commit(r.b)
           /\ Call("EndVector", vectorNumElems, 0, FALSE)
           /\ depth' = IF r.b.err = "" THEN depth - 1 ELSE depth
           /\ items' = IF r.b.err = ""
                       THEN Append(items, Item("vector", r.n, vectorNumElems, <<>>))
                       ELSE items
           /\ UNCHANGED <<objStarted, finishDone, curWrites, curN, objs, root>>

\* CreateString and CreateByteString
CreateStringStep(Texts) ==
    \E s \in Texts :
        LET r == CreateString(Builder, s, allocPolicy)
        IN /\ Commit(r.b)
           /\ Call("CreateString", Len(s), 0, FALSE)
           /\ items' = IF r.b.err = ""
                       THEN Append(items, Item("string", r.n, Len(s), s)) ELSE items
           /\ UNCHANGED <<objStarted, depth, finishDone, curWrites, curN, objs, root>>

CreateByteVectorStep(Texts) ==
    \E v \in Texts :
        LET r == CreateByteVector(Builder, v, allocPolicy)
        IN /\ Commit(r.b)
           /\ Call("CreateByteVector", Len(v), 0, FALSE)
           /\ items' = IF r.b.err = ""
                       THEN Append(items, Item("bytes", r.n, Len(v), v)) ELSE items
           /\ UNCHANGED <<objStarted, depth, finishDone, curWrites, curN, objs, root>>

\* the offsets a caller passes as a reference: those returned by EndObject,
\* the current offset, and one beyond everything the call can write
Targets == {objs[i].off : i \in 1..Len(objs)} \cup {Offset(Builder), Offset(Builder) + 16}

FinishStep(Roots) ==
    \E rootTable \in Roots :
        LET r == Finish(Builder, rootTable, allocPolicy)
        IN /\ Commit(r)
           /\ Call("Finish", 0, 0, FALSE)
           /\ finishDone' = (finishDone \/ r.err = "")
           /\ root' = IF r.err = "" THEN rootTable ELSE root
           /\ UNCHANGED <<objStarted, depth, curWrites, curN, objs, items>>

FinishWithFileIdentifierStep(Roots, Fids) ==
    \E rootTable \in Roots, fid \in Fids :
        LET r == FinishWithFileIdentifier(Builder, rootTable, fid, allocPolicy)
        IN /\ Commit(r)
           /\ Call("FinishWithFileIdentifier", Len(fid), 0, FALSE)
           /\ finishDone' = (finishDone \/ r.err = "")
           /\ root' = IF r.err = "" THEN rootTable ELSE root
           /\ UNCHANGED <<objStarted, depth, curWrites, curN, objs, items>>

FinishedBytesStep ==
    LET r == FinishedBytes(Builder)
    IN /\ Commit(r.b)
       /\ CallRet("FinishedBytes", r.bytes)
       /\ UNCHANGED ghostVars

ResetStep ==
    /\ Commit(Reset(Builder))
    /\ Call("Reset", 0, 0, FALSE)
    /\ objStarted' = FALSE /\ depth' = 0 /\ finishDone' = FALSE
    /\ curWrites' = <<>> /\ objs' = <<>> /\ root' = 0 /\ items' = <<>>
    /\ UNCHANGED curN

PrepStep(Sizes, Extras) ==
    \E size \in Sizes, additionalBytes \in Extras :
        /\ Commit(Prep(Builder, size, additionalBytes, allocPolicy))
        /\ Call("Prep", size, additionalBytes, FALSE)
        /\ UNCHANGED ghostVars

\* PrependByte, PrependInt8 .. PrependInt64
PrependStep(Sizes) ==
    \E size \in Sizes :
      \E x \in Values(size) \ {0} :
        /\ Commit(Prepend(Builder, size, x, allocPolicy))
        /\ Call("Prepend", size, 0, FALSE)
        /\ UNCHANGED ghostVars

\* op.n remembers the offset referred to
PrependUOffsetTStep(Offs) ==
    \E off \in Offs :
        /\ Commit(PrependUOffsetT(Builder, off, allocPolicy))
        /\ op' = [name |-> "PrependUOffsetT", size |-> 0, extra |-> 0,
                  elided |-> FALSE, ret |-> <<>>, n |-> off, obj |-> 0, ok |-> FALSE]
        /\ UNCHANGED ghostVars

\* Pad
PadStep(Ns) ==
    \E n \in Ns :
        /\ Commit(PadZeros(Builder, n))
        /\ Call("Pad", n, 0, FALSE)
        /\ UNCHANGED ghostVars

Count(kind) == calls' = [calls EXCEPT ![kind] = @ + 1]

\* ------------------------------ Spec: every call, in every order, few calls
Budget == calls.total < MaxCalls

StartObjectCall == Budget /\ StartObjectStep({1}) /\ Count("total")

PrependSlotCall ==
    Budget /\ PrependSlotStep({4}, AnyValue, AnyDefault, {0, 1}, TRUE) /\ Count("total")

PrependStructSlotCall == Budget /\ PrependStructSlotStep({0}) /\ Count("total")

EndObjectCall == Budget /\ EndObjectStep /\ Count("total")

StartVectorCall == Budget /\ StartVectorStep({<<2, 1, 2>>}) /\ Count("total")

EndVectorCall == Budget /\ EndVectorStep({1}) /\ Count("total")

CreateStringCall == Budget /\ CreateStringStep({<<97>>}) /\ Count("total")

CreateByteVectorCall == Budget /\ CreateByteVectorStep({<<97>>}) /\ Count("total")

FinishCall == Budget /\ FinishStep(Targets) /\ Count("total")

FinishWithFileIdentifierCall ==
    Budget /\ FinishWithFileIdentifierStep({Offset(Builder)}, FileIdentifiers) /\ Count("total")

FinishedBytesCall == Budget /\ FinishedBytesStep /\ Count("total")

ResetCall == Budget /\ ResetStep /\ Count("total")

PrependUOffsetTCall ==
    Budget /\ PrependUOffsetTStep({Offset(Builder), Offset(Builder) + 16}) /\ Count("total")

Next ==
    \/ StartObjectCall
    \/ PrependSlotCall
    \/ PrependStructSlotCall
    \/ EndObjectCall
    \/ StartVectorCall
    \/ EndVectorCall
    \/ CreateStringCall
    \/ CreateByteVectorCall
    \/ FinishCall
    \/ FinishWithFileIdentifierCall
    \/ FinishedBytesCall
    \/ ResetCall
    \/ PrependUOffsetTCall

Spec == Init /\ [][Next]_vars

\* --------------------- SpecObj: objects with fields of every width, then Finish
ObjStartObject ==
    /\ ~finished /\ calls.objects < MaxObjects
    /\ StartObjectStep(0..MaxFields) /\ Count("objects")

\* the defaults the schema gives the fields: zero for the 1- and 4-byte
\* fields, a non-zero one for the 2- and 8-byte fields
ObjDefaults == [size \in Widths |-> IF size \in {2, 8} THEN Values(size) \ {0} ELSE {0}]

\* the slots of the open object that hold no field yet
FreeSlots == {o \in 0..(Len(vtable) - 1) : vtable[o + 1] = 0}

ObjPrependSlot ==
    /\ ~finished
    /\ PrependSlotStep(Widths, AnyValue, ObjDefaults, FreeSlots, calls.writes < MaxSlotWrites)
    /\ calls' = [calls EXCEPT !.writes = IF op'.elided THEN @ ELSE @ + 1]

\* an object with fields is closed once one of them has been written
ObjEndObject ==
    /\ ~finished /\ (nested => (curWrites # <<>> \/ curN = 0))
    /\ EndObjectStep /\ UNCHANGED calls

\* the object completed last becomes the root
ObjFinish ==
    /\ ~finished
    /\ FinishStep({objs[i].off : i \in {Len(objs)} \ {0}})
    /\ UNCHANGED calls

NextObj == ObjStartObject \/ ObjPrependSlot \/ ObjEndObject \/ ObjFinish

InitObj == InitWith({0}, {0})

SpecObj == InitObj /\ [][NextObj]_vars

\* ------------------------------------- SpecPrep: Prep on buffers of every fill
InitPrep == InitWith(0..MaxInitialSize, AllocPolicies)

PrepPrepend == calls.raw < MaxRaw /\ PrependStep(Widths) /\ Count("raw")

PrepPrep == calls.raw < MaxRaw /\ PrepStep(Widths, 0..MaxExtra) /\ Count("raw")

NextPrep == PrepPrepend \/ PrepPrep

SpecPrep == InitPrep /\ [][NextPrep]_vars

\* ------- SpecFin: scalars of every width, Finish with or without an identifier
InitFin == InitWith({0, MaxInitialSize}, {0})

FinPrepend == ~finished /\ calls.raw < MaxRaw /\ PrependStep(Widths) /\ Count("raw")

\* roots at the end, inside and at the front of the buffer, and one beyond it
FinFinish ==
    /\ ~finished
    /\ FinishStep({0, 3, Offset(Builder), Offset(Builder) + 1})
    /\ UNCHANGED calls

\* an identifier that is nil or empty, one of one byte, one of four bytes
FinFinishWithFileIdentifier ==
    /\ ~finished
    /\ FinishWithFileIdentifierStep({Offset(Builder)}, FileIdentifiers \cup {<<70>>})
    /\ UNCHANGED calls

\* one Reset of a finished builder, after which the builder is used again
FinReset ==
    /\ calls.total = 0 /\ finished /\ root = 0
    /\ ResetStep
    /\ calls' = [calls EXCEPT !.total = 1, !.raw = 0]

NextFin == FinPrepend \/ FinFinish \/ FinFinishWithFileIdentifier \/ FinReset

SpecFin == InitFin /\ [][NextFin]_vars

\* ------------- SpecGrow: growth of buffers of every length up to 2^31 - 2
GrowWindow == 40

\* lengths at the lower end, around 2^30 and at the upper end of the range
GrowLengths ==
    (0..GrowWindow) \cup ((GrowLimit - GrowWindow)..(GrowLimit + GrowWindow))
        \cup ((2 * (GrowLimit - 1) - GrowWindow)..(2 * (GrowLimit - 1)))

\* one turn of the loop of Prep on a buffer of length len with cursor h:
\* growByteBuffer, then head += len(b.Bytes) - oldBufSize unless it panicked.
\* op.ret is the length and the cursor afterwards, op.ok is FALSE for a panic
GrowBuffer(len, h) ==
    LET g == growLength(len)
    IN /\ op' = [name |-> "growByteBuffer", size |-> len, extra |-> h,
                 elided |-> FALSE,
                 ret |-> IF g.err = "" THEN <<g.len, h + (g.len - len)>> ELSE <<len, h>>,
                 n |-> 0, obj |-> 0, ok |-> g.err = ""]
       /\ UNCHANGED <<builderVars, prepMax, panicked, allocPolicy, fresh, calls, arrayVars>>
       /\ UNCHANGED ghostVars

\* a buffer of any of the lengths, empty or full
GrowFirst ==
    /\ op.name = "NewBuilder"
    /\ \E len \in GrowLengths : \E h \in {0, len} : GrowBuffer(len, h)

\* the buffer that has grown grows again
GrowNext == op.name = "growByteBuffer" /\ op.ok /\ GrowBuffer(op.ret[1], op.ret[2])

NextGrow == GrowFirst \/ GrowNext

SpecGrow == InitWith({0}, {0}) /\ [][NextGrow]_vars

\* --- SpecReset: a builder is used, Reset, and used again; the calls made after
\* the Reset are also made on a builder fresh from NewBuilder
InitReset == InitBuilders({0, MaxInitialSize}, {0, MaxInitialSize}, {0})

Before == calls.total = 0 /\ calls.raw < MaxRaw

BeforeStartObject == Before /\ StartObjectStep({0, 1}) /\ Count("raw")

BeforePrependSlot ==
    Before /\ PrependSlotStep({1, 4}, AnyValue, AnyDefault, {0}, TRUE) /\ Count("raw")

BeforeEndObject == Before /\ EndObjectStep /\ Count("raw")

BeforeCreateString == Before /\ CreateStringStep({<<97>>}) /\ Count("raw")

BeforeFinish == Before /\ FinishStep({Offset(Builder)}) /\ Count("raw")

\* the one Reset, in whatever state the builder is
AgainReset == calls.total = 0 /\ ResetStep /\ Count("total")

Again == calls.total >= 1 /\ calls.total <= MaxCalls

\* one call made on both builders
TwinStep(name, r, f) ==
    /\ CommitBoth(r, f)
    /\ Call(name, 0, 0, FALSE)
    /\ Count("total")
    /\ UNCHANGED ghostVars

AgainStartObject ==
    /\ Again
    /\ \E numfields \in {0, 1} :
          TwinStep("StartObject", StartObject(Builder, numfields),
                   StartObject(fresh, numfields))

AgainPrependSlot ==
    /\ Again
    /\ \E size \in {1, 4} : \E x \in Values(size) \ {0} :
          TwinStep("PrependSlot", PrependSlot(Builder, size, 0, x, 0, allocPolicy),
                   PrependSlot(fresh, size, 0, x, 0, allocPolicy))

AgainEndObject ==
    /\ Again
    /\ TwinStep("EndObject", EndObject(Builder, allocPolicy).b,
                EndObject(fresh, allocPolicy).b)

AgainCreateString ==
    /\ Again
    /\ TwinStep("CreateString", CreateString(Builder, <<97>>, allocPolicy).b,
                CreateString(fresh, <<97>>, allocPolicy).b)

AgainFinish ==
    /\ Again
    /\ TwinStep("Finish", Finish(Builder, Offset(Builder), allocPolicy),
                Finish(fresh, Offset(Builder), allocPolicy))

NextReset ==
    \/ BeforeStartObject
    \/ BeforePrependSlot
    \/ BeforeEndObject
    \/ BeforeCreateString
    \/ BeforeFinish
    \/ AgainReset
    \/ AgainStartObject
    \/ AgainPrependSlot
    \/ AgainEndObject
    \/ AgainCreateString
    \/ AgainFinish

SpecReset == InitReset /\ [][NextReset]_vars

\* ------------------- SpecMut: objects of two fields, Finish, then one mutation
InitMut == InitWith({0}, {0})

MutWidths == {1, 4}

MutStartObject ==
    /\ ~finished /\ calls.objects < MaxObjects
    /\ StartObjectStep({2}) /\ Count("objects")

MutPrependSlot ==
    /\ ~finished
    /\ PrependSlotStep(MutWidths, AnyValue, [size \in MutWidths |-> {0}], FreeSlots, TRUE)
    /\ UNCHANGED calls

MutEndObject == ~finished /\ EndObjectStep /\ UNCHANGED calls

MutFinish ==
    /\ ~finished
    /\ FinishStep({objs[i].off : i \in {Len(objs)} \ {0}})
    /\ UNCHANGED calls

\* the width of the field object o holds in slot i, any width if it holds none
WidthsOf(o, i) ==
    LET ws == {o.writes[k][2] : k \in {k \in 1..Len(o.writes) : o.writes[k][1] = i}}
    IN IF ws = {} THEN MutWidths ELSE ws

\* the table of completed object j in the slice FinishedBytes returns
MutTable(j) ==
    [Bytes |-> SubSeq(Bytes, head + 1, Len(Bytes)), Pos |-> Len(Bytes) - head - objs[j].off]

\* t.MutateXSlot(4 + 2i, n) on the table of a completed object of the finished
\* buffer; t.Bytes is the slice FinishedBytes returned, which shares its bytes
\* with the builder
MutMutateSlot ==
    /\ finished /\ panicked = "" /\ calls.total = 0
    /\ \E j \in 1..Len(objs), i \in 0..2 :
         \E size \in WidthsOf(objs[j], i), n \in {5, -1} :
            LET r == MutateSlot(MutTable(j), size, 4 + 2 * i, n)
            IN /\ Bytes' = SubSeq(Bytes, 1, head) \o r.t.Bytes
               /\ op' = [name |-> "MutateSlot", size |-> size, extra |-> i,
                         elided |-> FALSE, ret |-> <<>>, n |-> n, obj |-> j,
                         ok |-> r.ok]
    /\ Count("total")
    /\ UNCHANGED <<capBytes, minalign, vtable, objectEnd, vtables, head, nested,
                   finished, prepMax, panicked, allocPolicy, fresh, arrayVars>>
    /\ UNCHANGED ghostVars

\* the slots a reader may ask for: every vtable offset up to that of a fourth
\* field, the odd ones included
MutSlots == 0..11

\* t.Offset(slot) on a completed object of the finished buffer
MutOffset ==
    /\ finished /\ panicked = "" /\ calls.total = 0
    /\ \E j \in 1..Len(objs), slot \in MutSlots :
          op' = [name |-> "Offset", size |-> 0, extra |-> slot, elided |-> FALSE,
                 ret |-> OffsetReads(MutTable(j), slot),
                 n |-> TableOffset(MutTable(j), slot), obj |-> j, ok |-> FALSE]
    /\ Count("total")
    /\ UNCHANGED <<builderVars, prepMax, panicked, allocPolicy, fresh, arrayVars>>
    /\ UNCHANGED ghostVars

\* t.GetXSlot(4 + 2i, d) with d = 9, for the two fields the writer declared
\* and two it did not
MutGetSlot ==
    /\ finished /\ panicked = "" /\ calls.total = 0
    /\ \E j \in 1..Len(objs), i \in 0..3 :
         \E size \in WidthsOf(objs[j], i) :
          op' = [name |-> "GetSlot", size |-> size, extra |-> i, elided |-> FALSE,
                 ret |-> <<>>, n |-> GetSlot(MutTable(j), size, 4 + 2 * i, 9),
                 obj |-> j, ok |-> FALSE]
    /\ Count("total")
    /\ UNCHANGED <<builderVars, prepMax, panicked, allocPolicy, fresh, arrayVars>>
    /\ UNCHANGED ghostVars

NextMut ==
    \/ MutStartObject
    \/ MutPrependSlot
    \/ MutEndObject
    \/ MutFinish
    \/ MutMutateSlot
    \/ MutOffset
    \/ MutGetSlot

SpecMut == InitMut /\ [][NextMut]_vars

\* ------------- SpecRef: strings and vectors, then one object that refers to them
\* the object of SpecRef: slot 0 is an int32 (default 0), slot 1 a reference to
\* a string or vector, slot 2 an int16 (default 0)
RefFields == 3

RefValue == [size \in {2, 4} |-> IF size = 4 THEN {0, 42} ELSE {0, 7}]

RefDefault == [size \in {2, 4} |-> {0}]

InitRef == InitWith({0, MaxInitialSize}, {0})

\* nothing is open and no object was built yet: the place for strings and vectors
RefOutside == ~finished /\ ~nested /\ objs = <<>> /\ calls.items < MaxItems

RefCreateString == RefOutside /\ CreateStringStep(Strings) /\ Count("items")

RefCreateByteVector == RefOutside /\ CreateByteVectorStep({<<7, 8>>}) /\ Count("items")

\* a vector of one int16, of one int64, or of one reference
RefStartVector ==
    RefOutside /\ StartVectorStep({<<2, 1, 2>>, <<8, 1, 8>>, <<4, 1, 4>>}) /\ Count("items")

\* the element of the vector just started
RefPrependElement ==
    /\ op.name = "StartVector" /\ panicked = ""
    /\ PrependStep({op.size}) /\ UNCHANGED calls

\* a reference to a string or vector completed before, as the element of the
\* vector just started
RefPrependUOffsetT ==
    /\ op.name = "StartVector" /\ op.size = SizeUOffsetT /\ panicked = ""
    /\ PrependUOffsetTStep({items[k].off : k \in 1..Len(items)}) /\ UNCHANGED calls

RefEndVector ==
    /\ op.name \in {"Prepend", "PrependUOffsetT"} /\ nested /\ ~objStarted
    /\ EndVectorStep({1}) /\ UNCHANGED calls

RefStartObject ==
    /\ ~finished /\ ~nested /\ objs = <<>>
    /\ StartObjectStep({RefFields}) /\ UNCHANGED calls

RefPrependInt32Slot ==
    /\ objStarted
    /\ PrependSlotStep({4}, RefValue, RefDefault, FreeSlots \cap {0}, TRUE)
    /\ UNCHANGED calls

RefPrependUOffsetTSlot ==
    /\ objStarted
    /\ PrependUOffsetTSlotStep(FreeSlots \cap {1},
                               {0} \cup {items[k].off : k \in 1..Len(items)})
    /\ UNCHANGED calls

\* the int16 field of slot 2 is given once, calls.writes counts it
RefPrependInt16Slot ==
    /\ objStarted /\ calls.writes = 0
    /\ PrependSlotStep({2}, RefValue, RefDefault, FreeSlots \cap {2}, TRUE)
    /\ Count("writes")

RefEndObject == objStarted /\ EndObjectStep /\ UNCHANGED calls

RefFinish ==
    /\ ~finished /\ ~nested
    /\ FinishStep({objs[k].off : k \in 1..Len(objs)}) /\ UNCHANGED calls

NextRef ==
    \/ RefCreateString
    \/ RefCreateByteVector
    \/ RefStartVector
    \/ RefPrependElement
    \/ RefPrependUOffsetT
    \/ RefEndVector
    \/ RefStartObject
    \/ RefPrependInt32Slot
    \/ RefPrependUOffsetTSlot
    \/ RefPrependInt16Slot
    \/ RefEndObject
    \/ RefFinish

SpecRef == InitRef /\ [][NextRef]_vars

\* ------------------------------------------- the callers of the array builders
\* the value a caller appends as element j: a bool, or the bytes of a binary
ValueAt(kind, j) ==
    IF kind = "bool" THEN j % 3 = 0
    ELSE CASE j % 3 = 0 -> <<7>> [] j % 3 = 1 -> <<>> [] OTHER -> <<1, 2>>

\* the n values a caller appends from element from on
ValuesFrom(kind, from, n) == [k \in 1..n |-> ValueAt(kind, from + k - 1)]

\* a valid slice of n elements with a null at every third place
ValidPattern(n) == [k \in 1..n |-> k % 3 # 2]

\* an element appended: its validity and, if it is valid, its value
Elem(valid, v) == [valid |-> valid, v |-> v]

flatVars == <<builderVars, prepMax, ghostVars, allocPolicy, fresh>>

\* the array builder after a call, as left by a return or by a panic
ArrCommit(r, name, n, v, valid) ==
    /\ panicked = ""
    /\ r.capacity <= MaxCapacity
    /\ arr' = r
    /\ panicked' = r.err
    /\ op' = [name |-> name, n |-> n, v |-> v, valid |-> valid]
    /\ Count("total")
    /\ UNCHANGED <<flatVars, rel>>

ArrAppendStep ==
    LET v == ValueAt(arr.kind, arr.length)
        r == AppendValue(arr, v)
    IN /\ ArrCommit(r, "Append", 1, <<v>>, <<>>)
       /\ hist' = IF r.err = "" THEN Append(hist, Elem(TRUE, v)) ELSE hist
       /\ room' = Max(room - 1, 0)
       /\ UNCHANGED made

ArrAppendNullStep ==
    LET r == AppendNull(arr)
    IN /\ ArrCommit(r, "AppendNull", 1, <<>>, <<>>)
       /\ hist' = IF r.err = "" THEN Append(hist, Elem(FALSE, <<>>)) ELSE hist
       /\ room' = Max(room - 1, 0)
       /\ UNCHANGED made

\* the elements AppendValues(v, valid) appends
ElemsOf(v, valid) ==
    [k \in 1..Len(v) |-> IF valid = <<>> \/ valid[k] THEN Elem(TRUE, v[k])
                         ELSE Elem(FALSE, <<>>)]

\* AppendValues(v, valid) with len(v) = n and valid one of Valids[n]
ArrAppendValuesStep(Valids) ==
    \E n \in DOMAIN Valids :
      \E valid \in Valids[n] :
        LET v == ValuesFrom(arr.kind, arr.length, n)
            r == AppendValues(arr, v, valid)
        IN /\ ArrCommit(r, "AppendValues", n, v, valid)
           /\ hist' = IF r.err = "" THEN hist \o ElemsOf(v, valid) ELSE hist
           /\ room' = Max(room - n, 0)
           /\ UNCHANGED made

\* BooleanBuilder.Reserve and BinaryBuilder.Reserve
ArrReserveStep(Ns) ==
    \E n \in Ns :
        /\ ArrCommit(reserve(arr, n), "Reserve", n, <<>>, <<>>)
        /\ room' = n
        /\ UNCHANGED <<hist, made>>

\* BinaryBuilder.Append(v) with v any of Vs
ArrAppendAnyStep(Vs) ==
    \E v \in Vs :
        LET r == AppendValue(arr, v)
        IN /\ ArrCommit(r, "Append", 1, <<v>>, <<>>)
           /\ hist' = IF r.err = "" THEN Append(hist, Elem(TRUE, v)) ELSE hist
           /\ room' = Max(room - 1, 0)
           /\ UNCHANGED made

\* BooleanBuilder.Resize and BinaryBuilder.Resize; the elements beyond the
\* new length are dropped
ArrResizeStep(Ns) ==
    \E n \in Ns :
        LET r == Resize(arr, n)
        IN /\ ArrCommit(r, "Resize", n, <<>>, <<>>)
           /\ hist' = SubSeq(hist, 1, Min(Len(hist), r.length))
           /\ room' = 0
           /\ UNCHANGED made

ArrNewArrayStep ==
    LET r == NewArray(arr)
    IN /\ ArrCommit(r.b, "NewArray", 0, <<>>, <<>>)
       /\ made' = Append(made, [a |-> r.a, elems |-> hist])
       /\ hist' = <<>>
       /\ room' = 0

\* ------------- SpecArr: Append, AppendNull, Reserve and NewArray in every order
InitArr == InitAll({0}, {0}, {0}, {"bool", "binary"}, BOOLEAN)

ArrBudget == calls.total <= MaxCalls

ArrAppend == ArrBudget /\ ArrAppendStep

ArrAppendNull == ArrBudget /\ ArrAppendNullStep

OnlyEmpty == [n \in {BulkLen} |-> {<<>>}]

\* more values than minBuilderCapacity at once, all valid
ArrAppendBulk == ArrBudget /\ ArrAppendValuesStep(OnlyEmpty)

ArrReserve == ArrBudget /\ ArrReserveStep({0, 1, BulkLen})

ArrNewArray == ArrBudget /\ ArrNewArrayStep

NextArr == ArrAppend \/ ArrAppendNull \/ ArrAppendBulk \/ ArrReserve \/ ArrNewArray

SpecArr == InitArr /\ [][NextArr]_vars

\* ------------------ SpecShrink: the calls of SpecArr and Resize in every order
\* Resize to one element, and to one more than the smallest capacity
ShrinkResize == ArrBudget /\ ArrResizeStep({1, BulkLen})

NextShrink == NextArr \/ ShrinkResize

SpecShrink == InitArr /\ [][NextShrink]_vars

\* ---------- SpecBin: a BinaryBuilder, Append of any value and AppendNull
BinValues == {<<>>, <<7>>, <<1, 2>>}

BinAppend == ArrBudget /\ ArrAppendAnyStep(BinValues)

BinAppendNull == ArrBudget /\ ArrAppendNullStep

NextBin == BinAppend \/ BinAppendNull

SpecBin == InitAll({0}, {0}, {0}, {"binary"}, BOOLEAN) /\ [][NextBin]_vars

\* ------------- SpecBits: AppendValues at every bit position of the bitmap
\* the valid slices a caller fills the builder with
FillValids == [n \in 0..MaxElems |-> {<<>>, ValidPattern(n)}]

\* the valid slices of the call looked at: none, one of n elements, all
\* false, and slices that are one longer and one shorter than v
AnyValids ==
    [n \in (0..MaxElems) \cup {BulkLen} |->
        {<<>>, ValidPattern(n), [k \in 1..n |-> FALSE], ValidPattern(n + 1),
         ValidPattern(Max(n - 1, 0))}]

BitsFill == calls.total = 0 /\ ArrAppendValuesStep(FillValids)

BitsAppendNull == calls.total = 0 /\ ArrAppendNullStep

BitsAppendValues ==
    calls.total = 1 /\ ArrAppendValuesStep(AnyValids)

NextBits == BitsFill \/ BitsAppendNull \/ BitsAppendValues

SpecBits == InitArr /\ [][NextBits]_vars

\* ------------- SpecRel: Retain calls, then one Release per reference at once
\* a step of the array builder's reference counting
RelCommit(r, l, name, g) ==
    /\ panicked = ""
    /\ arr' = r
    /\ rel' = l
    /\ op' = [name |-> name, n |-> g, v |-> <<>>, valid |-> <<>>]
    /\ UNCHANGED <<flatVars, hist, made, room>>

\* the builder may hold elements, so that its buffers exist
RelAppend ==
    /\ calls.total = 0 /\ rel = NoRelease /\ arr.refCount = 1
    /\ ArrAppendStep

\* builder.Retain
RelRetain ==
    /\ rel = NoRelease /\ arr.refCount <= MaxCalls
    /\ RelCommit([arr EXCEPT !.refCount = @ + 1], rel, "Retain", 0)
    /\ UNCHANGED <<panicked, calls>>

\* the buffers of the builder that are not nil
HeldBuffers(b) ==
    {name \in {"nullBitmap", "data", "offsets", "values"} :
        \/ name = "nullBitmap" /\ b.hasBitmap
        \/ name = "data" /\ b.kind = "bool" /\ b.hasData
        \/ name = "offsets" /\ b.kind = "binary" /\ b.hasData
        \/ name = "values" /\ b.kind = "binary" /\ b.hasValues}

\* one goroutine per reference calls Release
RelGo ==
    /\ rel = NoRelease
    /\ RelCommit(arr,
                 [pc |-> [g \in 1..arr.refCount |-> "assert"],
                  loaded |-> [g \in 1..arr.refCount |-> 0],
                  added |-> [g \in 1..arr.refCount |-> -1],
                  freed |-> <<>>, count |-> arr.refCount, held |-> HeldBuffers(arr)],
                 "go", arr.refCount)
    /\ UNCHANGED <<panicked, calls>>

\* debug.Assert(atomic.LoadInt64(&b.refCount) > 0, "too many releases")
RelAssert(g) ==
    /\ rel.pc[g] = "assert"
    /\ RelCommit(arr, [rel EXCEPT !.pc[g] = "add", !.loaded[g] = arr.refCount],
                 "Release", g)
    /\ panicked' = IF arr.refCount > 0 THEN "" ELSE "too many releases"
    /\ UNCHANGED calls

\* atomic.AddInt64(&b.refCount, -1) and the test of its result
RelAdd(g) ==
    /\ rel.pc[g] = "add"
    /\ RelCommit([arr EXCEPT !.refCount = @ - 1],
                 [rel EXCEPT !.added[g] = arr.refCount - 1,
                             !.pc[g] = IF ReachedZero(rel.loaded[g], arr.refCount - 1)
                                       THEN "free1" ELSE "done"],
                 "Release", g)
    /\ UNCHANGED <<panicked, calls>>

FreeSteps == <<"free1", "free2", "free3">>

\* the builder without buffer name
Freed(b, name) ==
    CASE name = "nullBitmap" -> [b EXCEPT !.hasBitmap = FALSE, !.nullBitmap = <<>>]
      [] name = "data"       -> [b EXCEPT !.hasData = FALSE, !.data = <<>>]
      [] name = "offsets"    -> [b EXCEPT !.hasData = FALSE, !.offsets = <<>>]
      [] OTHER               -> [b EXCEPT !.hasValues = FALSE, !.values = <<>>]

\* if b.X != nil { b.X.Release(); b.X = nil } for the i-th buffer of Release
RelFree(g) ==
    \E i \in 1..Len(BuffersOf(arr.kind)) :
        LET name == BuffersOf(arr.kind)[i]
            next == IF i = Len(BuffersOf(arr.kind)) THEN "done" ELSE FreeSteps[i + 1]
        IN /\ rel.pc[g] = FreeSteps[i]
           /\ IF name \in HeldBuffers(arr)
              THEN RelCommit(Freed(arr, name),
                             [rel EXCEPT !.pc[g] = next,
                                         !.freed = Append(@, <<name, g>>)],
                             "Release", g)
              ELSE RelCommit(arr, [rel EXCEPT !.pc[g] = next], "Release", g)
           /\ UNCHANGED <<panicked, calls>>

RelRelease == \E g \in 1..Len(rel.pc) : RelAssert(g) \/ RelAdd(g) \/ RelFree(g)

NextRel == RelAppend \/ RelRetain \/ RelGo \/ RelRelease

SpecRel == InitArr /\ [][NextRel]_vars

\* ------- SpecVec: raw scalars, then one vector whose payload is written with Place
\* StartVector(elemSize, numElems, alignment) as <<elemSize, numElems, alignment>>
VecShapes == {<<e, k, a>> : e \in {1, 2, 8}, k \in 0..MaxItems, a \in {1, 2, 4, 8, 16}}

InitVec == InitWith({0, 1, MaxInitialSize}, {0})

\* a vector is open: it was started and received payload only
VecOpen == op.name \in {"StartVector", "PlaceElement"} /\ panicked = ""

\* Offset() as StartVector returned it
VecStart == IF op.name = "StartVector" THEN Len(Bytes) - head ELSE op.n

\* payload bytes written since StartVector
VecWritten == (Len(Bytes) - head) - VecStart

\* PrependByte, PrependInt16 before the vector: any Offset() at StartVector
VecPrepend ==
    /\ ~nested /\ calls.items = 0 /\ calls.raw < MaxRaw
    /\ PrependStep({1, 2}) /\ Count("raw")

VecStartVector ==
    /\ ~nested /\ calls.items = 0
    /\ StartVectorStep(VecShapes) /\ Count("items")

\* PlaceByte or PlaceInt64 into the open vector, not beyond elemSize * numElems
\* bytes; op keeps the alignment (size) and payload size (extra) of StartVector
VecPlaceElement ==
    \E size \in {1, 8} :
      \E x \in Values(size) \ {0} :
        /\ VecOpen /\ VecWritten + size <= op.extra /\ VecWritten % size = 0
        /\ Commit(Place(Builder, size, x))
        /\ op' = [op EXCEPT !.name = "PlaceElement", !.n = VecStart]
        /\ UNCHANGED <<ghostVars, calls>>

\* EndVector once the payload is complete
VecEndVector ==
    /\ VecOpen /\ VecWritten = op.extra
    /\ EndVectorStep({3}) /\ UNCHANGED calls

NextVec == VecPrepend \/ VecStartVector \/ VecPlaceElement \/ VecEndVector

SpecVec == InitVec /\ [][NextVec]_vars

\* ------------ SpecBig: objects, one of which Pad makes larger than 16 bits tell
\* the first value that a VOffsetT (uint16) does not hold
VOffsetRange == Pow2(8 * SizeVOffsetT)

\* NewBuilder(BigSize): room for the object without growth
BigSize == VOffsetRange + MaxBytes

\* the n passed to Pad: the object stays below VOffsetRange, reaches it, or
\* a field lies exactly VOffsetRange or more from the object start
BigPads == {1, VOffsetRange - 16, VOffsetRange - 12, VOffsetRange - 9, VOffsetRange - 5,
            VOffsetRange - 4, VOffsetRange}

BigWidths == {1, 8}

BigStartObject ==
    /\ ~nested /\ calls.objects < MaxObjects
    /\ StartObjectStep({1}) /\ Count("objects")

BigPrependSlot ==
    /\ objStarted
    /\ PrependSlotStep(BigWidths, [size \in BigWidths |-> Values(size) \ {0}],
                       [size \in BigWidths |-> {0}], FreeSlots, TRUE)
    /\ UNCHANGED calls

\* one Pad, in one of the objects, before or after its field
BigPad ==
    /\ objStarted /\ calls.raw = 0
    /\ PadStep(BigPads) /\ Count("raw")

BigEndObject == objStarted /\ EndObjectStep /\ UNCHANGED calls

NextBig == BigStartObject \/ BigPrependSlot \/ BigPad \/ BigEndObject

SpecBig == InitWith({BigSize}, {0}) /\ [][NextBig]_vars

\* ------ SpecApp: objects, strings, vectors and padding in any order, then Finish
\* nothing is open and Finish was not called
AppOutside == ~nested /\ ~finished /\ panicked = ""

\* objects of one int32 field
AppStartObject ==
    /\ AppOutside /\ calls.objects < MaxObjects
    /\ StartObjectStep({1}) /\ Count("objects")

AppPrependSlot ==
    /\ objStarted /\ nested
    /\ PrependSlotStep({4}, [size \in {4} |-> Values(size) \ {0}], [size \in {4} |-> {0}],
                       FreeSlots, TRUE)
    /\ UNCHANGED calls

AppEndObject == objStarted /\ nested /\ FreeSlots = {} /\ EndObjectStep /\ UNCHANGED calls

AppCreateString ==
    /\ AppOutside /\ calls.items < MaxItems
    /\ CreateStringStep({<<97>>}) /\ Count("items")

\* a vector of one int16
AppStartVector ==
    /\ AppOutside /\ calls.items < MaxItems
    /\ StartVectorStep({<<2, 1, 2>>}) /\ Count("items")

AppPrependElement ==
    /\ op.name = "StartVector" /\ panicked = ""
    /\ PrependStep({op.size}) /\ UNCHANGED calls

AppEndVector ==
    /\ op.name = "Prepend" /\ nested /\ ~objStarted
    /\ EndVectorStep({1}) /\ UNCHANGED calls

\* Pad(3) between the constructs
AppPad ==
    /\ AppOutside /\ calls.raw < MaxRaw
    /\ PadStep({3}) /\ Count("raw")

\* Finish with the last object as the root
AppFinish ==
    /\ AppOutside /\ objs # <<>>
    /\ FinishStep({objs[Len(objs)].off}) /\ UNCHANGED calls

NextApp ==
    \/ AppStartObject
    \/ AppPrependSlot
    \/ AppEndObject
    \/ AppCreateString
    \/ AppStartVector
    \/ AppPrependElement
    \/ AppEndVector
    \/ AppPad
    \/ AppFinish

SpecApp == InitWith({0}, {0}) /\ [][NextApp]_vars

\* ------------------------------------------------------------- properties
\* what FinishedBytes returns in the current state
FinishedView == SubSeq(Bytes, head + 1, Len(Bytes))

\* Table{Bytes: FinishedBytes(), Pos: position of the object at tail offset off}
TableAt(off) == [Bytes |-> FinishedView, Pos |-> Len(FinishedView) - off]

\* the last non-default write of object o to slot i, <<>> if there is none
LastWrite(o, i) ==
    LET ks == {k \in 1..Len(o.writes) : o.writes[k][1] = i}
    IN IF ks = {} THEN <<>>
       ELSE o.writes[CHOOSE k \in ks : \A j \in ks : j <= k]

\* C1: round trip. Once Finish has made a completed object the root, reading
\* slot 4+2i of Table{FinishedBytes, root position} returns the value written
\* to slot i when it differed from its default, and the default passed to the
\* getter when slot i was only given default values or never written.
C1_RoundTrip ==
    (panicked = "" /\ finished) =>
        \A k \in 1..Len(objs) :
            objs[k].off = root =>
                \A i \in 0..(objs[k].n - 1) :
                    LET w == LastWrite(objs[k], i)
                    IN IF w # <<>>
                       THEN \A d \in Values(w[2]) :
                                GetSlot(TableAt(root), w[2], 4 + 2 * i, d) = w[3]
                       ELSE \A size \in Widths : \A d \in Values(size) :
                                GetSlot(TableAt(root), size, 4 + 2 * i, d) = d

\* the root is the second of two objects, it shares the first one's vtable, one
\* of its two slots was written and the other was not
C1_Witness ==
    /\ panicked = "" /\ finished
    /\ Len(objs) = 2 /\ Len(vtables) = 1 /\ objs[2].off = root
    /\ objs[2].n = 2 /\ Len(objs[2].writes) = 1

\* C2: default elision. A PrependXSlot(i, x, d) call with x = d changes nothing
\* in the builder: no byte, not the cursor (Offset), not the working vtable, so
\* the object's size and its committed vtable are those of a build without
\* the call.
C2_DefaultElision ==
    [][(op'.name = "PrependSlot" /\ op'.elided) =>
          /\ UNCHANGED <<Bytes, capBytes, head, vtable, vtables, objectEnd,
                         minalign, nested, finished>>
          /\ panicked' = ""]_vars

\* an elided call made inside an object that already holds a field
C2_Witness ==
    /\ op.name = "PrependSlot" /\ op.elided /\ panicked = ""
    /\ nested /\ objStarted /\ Len(curWrites) >= 1

\* the layout of a completed object: numfields and the slots written, with
\* their widths, in call order
LayoutOf(o) == <<o.n, [k \in 1..Len(o.writes) |-> <<o.writes[k][1], o.writes[k][2]>>]>>

\* distance of each field from the object start, 0 for a slot not written
DistancesOf(o) ==
    [i \in 1..Len(o.slots) |-> IF o.slots[i] = 0 THEN 0 ELSE o.off - o.slots[i]]

\* tail offset of the vtable the object at tail offset o.off points to
VtableOf(o) ==
    LET pos == Len(Bytes) - o.off
    IN Len(Bytes) - (pos - GetSigned(Bytes, pos, SizeSOffsetT))

\* C3 as claimed: any two objects of one buffer with the same layout point to
\* the same vtable, wherever they start.
C3_Original ==
    panicked = "" =>
        \A j \in 1..Len(objs), k \in 1..Len(objs) :
            LayoutOf(objs[j]) = LayoutOf(objs[k]) => VtableOf(objs[j]) = VtableOf(objs[k])

\* C3 amended: two objects of one buffer with the same layout whose fields lie
\* at the same distances from the object start point to the same vtable, and
\* the history holds a single vtable for them (the later EndObject wrote none).
C3_Dedup ==
    panicked = "" =>
        \A j \in 1..Len(objs), k \in 1..Len(objs) :
            (LayoutOf(objs[j]) = LayoutOf(objs[k]) /\ DistancesOf(objs[j]) = DistancesOf(objs[k]))
            => /\ VtableOf(objs[j]) = VtableOf(objs[k])
               /\ Cardinality({v \in 1..Len(vtables) :
                                 vtables[v] \in {VtableOf(objs[j]), VtableOf(objs[k])}}) = 1

\* two objects with the same written fields, started at different alignments,
\* share one vtable
C3_Witness ==
    /\ panicked = "" /\ Len(objs) = 2 /\ Len(vtables) = 1
    /\ objs[1].writes # <<>>
    /\ LayoutOf(objs[1]) = LayoutOf(objs[2])
    /\ objs[1].start % 4 # objs[2].start % 4
    /\ VtableOf(objs[1]) = VtableOf(objs[2])

\* a step that is a builder call (a stuttering step leaves calls unchanged)
IsCall(name) == calls' # calls /\ op'.name = name

NotNestedCalls == {"StartObject", "StartVector", "CreateString", "CreateByteVector",
                   "Finish", "FinishWithFileIdentifier"}

NestedCalls == {"EndObject", "EndVector"}

\* C4: nesting is enforced. StartObject, StartVector, CreateString,
\* CreateByteString, CreateByteVector, Finish and FinishWithFileIdentifier panic
\* when something is open, EndObject and EndVector panic when nothing is open,
\* and the number of open constructs (successful starts minus successful ends)
\* is 0 or 1 and agrees with the nested flag.
C4_Nesting ==
    [][calls' # calls =>
          /\ (op'.name \in NotNestedCalls /\ nested) => panicked' # ""
          /\ (op'.name \in NestedCalls /\ ~nested) => panicked' # ""
          /\ depth' \in {0, 1}
          /\ nested' = (depth' = 1)]_vars

\* StartVector was rejected because an object is open
C4_Witness ==
    op.name = "StartVector" /\ panicked = "nested" /\ objStarted /\ depth = 1

SlotCalls == {"PrependSlot", "PrependStructSlot"}

\* C5 as claimed: every slot write made while no object has been started aborts,
\* also when the value equals the default.
C5_Original ==
    [][(calls' # calls /\ op'.name \in SlotCalls /\ ~objStarted) => panicked' # ""]_vars

\* C5 amended: every slot write with x # d made while no object has been started
\* (fresh builder, after EndObject, after Reset, or with only a vector open)
\* aborts; a slot write with x = d returns without effect.
C5_SlotOutsideObject ==
    [][(calls' # calls /\ op'.name \in SlotCalls /\ ~objStarted) =>
          IF op'.elided
          THEN panicked' = "" /\ UNCHANGED builderVars
          ELSE panicked' # ""]_vars

\* a PrependXSlot with x # d panicked on the empty working vtable after an
\* object had been completed
C5_Witness ==
    /\ op.name = "PrependSlot" /\ ~op.elided /\ panicked = "slot"
    /\ ~objStarted /\ Len(objs) = 1

\* C6: FinishedBytes panics unless a Finish has completed since the builder was
\* created or last Reset; otherwise it returns Bytes[head:] and changes nothing.
C6_FinishedBytes ==
    [][IsCall("FinishedBytes") =>
          IF finishDone
          THEN /\ panicked' = ""
               /\ op'.ret = SubSeq(Bytes, head + 1, Len(Bytes))
               /\ UNCHANGED builderVars
          ELSE panicked' = "notfinished"]_vars

\* FinishedBytes returned a finished buffer: the root pointer and the data
\* written before Finish
C6_Witness ==
    op.name = "FinishedBytes" /\ panicked = "" /\ Len(op.ret) >= 8 /\ calls.total = 3

\* the panics that reject a call for a protocol violation
ProtocolPanics == {"nested", "notnested", "notfinished", "fid", "offset", "slot", "inline"}

\* C7 as claimed: a call rejected for a protocol violation leaves the builder
\* as it was before the call.
C7_Original ==
    [][(calls' # calls /\ panicked' \in ProtocolPanics) => UNCHANGED builderVars]_vars

\* the rejections decided by a check at the entry of the called method
EntryRejected(name, reason) ==
    \/ name \in {"StartObject", "StartVector", "CreateString", "CreateByteVector", "Finish"}
          /\ reason = "nested"
    \/ name \in NestedCalls /\ reason = "notnested"
    \/ name = "FinishedBytes" /\ reason = "notfinished"
    \/ name = "FinishWithFileIdentifier" /\ reason = "fid"
    \/ name = "PrependStructSlot" /\ reason \in {"notnested", "inline"}

\* C7 amended: a call rejected by a check made at its entry (Start*, Create*,
\* Finish while something is open; End* while nothing is open; FinishedBytes
\* before Finish; FinishWithFileIdentifier with a bad identifier;
\* PrependStructSlot outside an object or off the cursor) leaves the builder
\* as it was before the call.
C7_AbortAtEntry ==
    [][(calls' # calls /\ EntryRejected(op'.name, panicked')) => UNCHANGED builderVars]_vars

\* EndObject was rejected on a buffer that already holds data
C7_Witness ==
    op.name = "EndObject" /\ panicked = "notnested" /\ Len(Bytes) - head > 0

\* C8 as claimed: after Prep(size, extra) the offset is a multiple of size.
C8_Original ==
    (op.name = "Prep" /\ panicked = "") => (Len(Bytes) - head) % op.size = 0

\* C8 amended: after Prep(size, extra) the offset is congruent to -extra modulo
\* size; it is a multiple of size when extra is.
C8_Alignment ==
    (op.name = "Prep" /\ panicked = "") =>
        /\ (Len(Bytes) - head) % op.size = (op.size - (op.extra % op.size)) % op.size
        /\ op.extra % op.size = 0 => (Len(Bytes) - head) % op.size = 0

\* Prep(8, extra) with extra not a multiple of 8 on a buffer holding data
C8_Witness ==
    /\ op.name = "Prep" /\ panicked = "" /\ op.size = 8 /\ op.extra % 8 # 0
    /\ Bytes[Len(Bytes)] # 0

\* C9: after Prep(size, additionalBytes): (a) Offset + additionalBytes is a
\* multiple of size, (b) head >= size + additionalBytes, (c) fewer than size
\* padding bytes were added and all are zero, (d) minalign is the larger of its
\* old value and size.
C9_Prep ==
    [][(IsCall("Prep") /\ panicked' = "") =>
          LET pad == (Len(Bytes') - head') - (Len(Bytes) - head)
          IN /\ ((Len(Bytes') - head') + op'.extra) % op'.size = 0
             /\ head' >= op'.size + op'.extra
             /\ pad >= 0 /\ pad < op'.size
             /\ \A i \in 1..pad : Bytes'[head' + i] = 0
             /\ minalign' = Max(minalign, op'.size)]_vars

\* Prep(4, extra) that padded and raised minalign
C9_Witness ==
    /\ op.name = "Prep" /\ panicked = "" /\ op.size = 4 /\ minalign = 4
    /\ Len(Bytes) - head \in {2, 3} /\ Bytes[head + 1] = 0

\* C10: growth preserves data. When Prep grows the buffer, the offset moves
\* only by the padding Prep computed before growing, and every byte written
\* before is found at the same distance from the end of the buffer.
C10_GrowthPreservesData ==
    [][(IsCall("Prep") /\ panicked' = "" /\ Len(Bytes') > Len(Bytes)) =>
          /\ (Len(Bytes') - head') =
                (Len(Bytes) - head) + alignSizeOf(Builder, op'.size, op'.extra)
          /\ \A k \in 1..(Len(Bytes) - head) :
                Bytes'[Len(Bytes') - k + 1] = Bytes[Len(Bytes) - k + 1]]_vars

\* Prep doubled a 12-byte buffer holding data twice
C10_Witness ==
    /\ op.name = "Prep" /\ panicked = "" /\ calls.raw = 2
    /\ Len(Bytes) = 48 /\ Bytes[Len(Bytes)] # 0

\* the references of a completed object: its writes made by PrependUOffsetTSlot
RefsOf(o) == {k \in 1..Len(o.writes) : Len(o.writes[k]) = 4}

\* the field of slot i of the table at tail offset off, as a position relative
\* to the table
FieldOf(off, i) == TableOffset(TableAt(off), 4 + 2 * i)

\* C11: lengths. The 4 bytes at the offset returned by EndVector(count) hold
\* count, those at the offset returned by CreateString(s), CreateByteString(s)
\* or CreateByteVector(s) hold len(s), whatever was built afterwards; after
\* Finish, VectorLen through a field that refers to the vector or string
\* returns the same number.
C11_Lengths ==
    panicked = "" =>
        /\ \A k \in 1..Len(items) :
              GetUnsigned(Bytes, Len(Bytes) - items[k].off, SizeUOffsetT) = items[k].count
        /\ finished =>
              \A j \in 1..Len(objs) : \A w \in RefsOf(objs[j]) : \A k \in 1..Len(items) :
                  items[k].off = objs[j].writes[w][3] =>
                      VectorLen(TableAt(objs[j].off), FieldOf(objs[j].off, objs[j].writes[w][1]))
                          = items[k].count

\* the finished object refers to the string "hello", built after a vector of
\* one 8-byte element
C11_Witness ==
    /\ panicked = "" /\ finished /\ Len(items) = 2 /\ Len(objs) = 1
    /\ items[1].kind = "vector" /\ items[2].kind = "string" /\ items[2].count = 5
    /\ \E w \in RefsOf(objs[1]) : objs[1].writes[w][3] = items[2].off

\* position in the finished buffer of the field of slot i of the table at tail
\* offset off
FieldPos(off, i) == TableAt(off).Pos + FieldOf(off, i)

\* C12: string round trip. For every string s created (the empty one included)
\* the length header lies at a multiple of 4 bytes from the buffer end, holds
\* len(s), is followed by the bytes of s and then by a zero byte; after Finish,
\* Table.String and Table.ByteVector at a field that refers to the string
\* return exactly the bytes of s.
C12_StringRoundTrip ==
    panicked = "" =>
        /\ \A k \in 1..Len(items) :
              items[k].kind = "string" =>
                  LET p == Len(Bytes) - items[k].off
                      l == Len(items[k].data)
                  IN /\ items[k].off % SizeUOffsetT = 0
                     /\ GetUnsigned(Bytes, p, SizeUOffsetT) = l
                     /\ SubSeq(Bytes, p + SizeUOffsetT + 1, p + SizeUOffsetT + l) = items[k].data
                     /\ p + SizeUOffsetT + l < Len(Bytes)
                     /\ Bytes[p + SizeUOffsetT + l + 1] = 0
        /\ finished =>
              \A j \in 1..Len(objs) : \A w \in RefsOf(objs[j]) : \A k \in 1..Len(items) :
                  (items[k].off = objs[j].writes[w][3] /\ items[k].kind = "string") =>
                      LET at == FieldPos(objs[j].off, objs[j].writes[w][1])
                      IN /\ String(TableAt(objs[j].off), at) = items[k].data
                         /\ ByteVector(TableAt(objs[j].off), at) = items[k].data

\* the finished object refers to the empty string, which was created after a
\* byte vector
C12_Witness ==
    /\ panicked = "" /\ finished /\ Len(items) = 2 /\ Len(objs) = 1
    /\ items[1].kind = "bytes" /\ items[2].kind = "string" /\ items[2].count = 0
    /\ \E w \in RefsOf(objs[1]) : objs[1].writes[w][3] = items[2].off

\* the writes of object o, as a set
WritesOf(o) == {o.writes[k] : k \in 1..Len(o.writes)}

\* position of the vtable of table t
VtablePos(t) == t.Pos - GetSigned(t.Bytes, t.Pos, SizeSOffsetT)

\* the object of the scenario: StartObject(3), a = 42 in slot 0, a reference to
\* "hello" in slot 1, c = 0 given to slot 2 with default 0
IsScenario(o) ==
    /\ o.n = 3 /\ calls.writes = 1
    /\ \E k \in 1..Len(items) :
          /\ items[k].kind = "string" /\ items[k].data = <<104, 101, 108, 108, 111>>
          /\ WritesOf(o) = {<<0, 4, 42>>, <<1, SizeUOffsetT, items[k].off, "ref">>}

TableIn(B, h, off) == [Bytes |-> SubSeq(B, h + 1, Len(B)), Pos |-> Len(B) - h - off]

\* C14: Mutate semantics. MutateXSlot on a field whose vtable entry is 0 (the
\* value equalled its default when written, or the slot lies beyond the vtable)
\* returns false and changes no byte; on a present field it returns true, a
\* following GetXSlot returns n, no byte outside the field's own storage
\* changes, and every other field of every object, objects sharing the vtable
\* included, still reads as before.
C14_Mutate ==
    [][op'.name = "MutateSlot" =>
         LET j == op'.obj
             i == op'.extra
             size == op'.size
             t == TableAt(objs[j].off)
             entry == TableOffset(t, 4 + 2 * i)
             at == head + t.Pos + entry
         IN /\ entry = 0 => (~op'.ok /\ Bytes' = Bytes)
            /\ entry # 0 =>
                 /\ op'.ok
                 /\ GetSlot(TableIn(Bytes', head', objs[j].off), size, 4 + 2 * i, 0) = op'.n
                 /\ Len(Bytes') = Len(Bytes)
                 /\ \A p \in 1..Len(Bytes) :
                       (p <= at \/ p > at + size) => Bytes'[p] = Bytes[p]
                 /\ \A k \in 1..Len(objs), m \in 0..1 :
                       (k # j \/ m # i) =>
                           \A sz \in WidthsOf(objs[k], m) :
                               GetSlot(TableIn(Bytes', head', objs[k].off), sz, 4 + 2 * m, 0)
                                   = GetSlot(TableAt(objs[k].off), sz, 4 + 2 * m, 0)
    ]_vars

\* a present field of the first of two objects that share one vtable has been
\* mutated
C14_Witness ==
    /\ op.name = "MutateSlot" /\ op.ok /\ op.obj = 1 /\ Len(objs) = 2
    /\ VtableOf(objs[1]) = VtableOf(objs[2])
    /\ Len(objs[2].writes) = 2

\* Finish or FinishWithFileIdentifier has just returned
JustFinished ==
    panicked = "" /\ finished /\ op.name \in {"Finish", "FinishWithFileIdentifier"}

\* C15: root pointer. After Finish(root) with root <= Offset(), bytes 0..3 of
\* FinishedBytes hold, as a little-endian unsigned number, the index within
\* FinishedBytes at which the root starts: len(FinishedBytes) - root.
C15_RootPointer ==
    JustFinished =>
        GetUnsigned(FinishedView, 0, SizeUOffsetT) = Len(FinishedView) - root

\* Finish has returned for a root inside the buffer
C15_Witness ==
    JustFinished /\ op.name = "Finish" /\ prepMax = 4 /\ root = 3 /\ Len(FinishedView) = 8

\* C16: minalign. minalign is the largest size passed to Prep since the builder
\* was created or last Reset (1 if there was none), and after Finish or
\* FinishWithFileIdentifier the length of FinishedBytes is a multiple of it.
C16_Minalign ==
    /\ minalign = prepMax
    /\ JustFinished => Len(FinishedView) % minalign = 0

\* Finish has returned for a buffer aligned to 8, after a Reset
C16_Witness ==
    JustFinished /\ minalign = 8 /\ calls.total = 1 /\ Len(FinishedView) = 16

\* C17: file identifier. After FinishWithFileIdentifier(root, fid) with a fid
\* of 4 bytes, bytes 0..3 of FinishedBytes hold the root position and bytes
\* 4..7 are fid[0..3], with no padding in between; a fid that is nil or not of
\* 4 bytes aborts the call.
C17_FileIdentifier ==
    op.name = "FinishWithFileIdentifier" =>
        IF op.size = fileIdentifierLength
        THEN panicked = "" =>
                 /\ GetUnsigned(FinishedView, 0, SizeUOffsetT) = Len(FinishedView) - root
                 /\ SubSeq(FinishedView, 5, 8) \in FileIdentifiers
        ELSE panicked = "fid"

\* number of vtable entries of object o: the slots up to the last one written
EntriesOf(o) == Len(TrimVtable(o.slots))

\* what Offset has to return for field slot 4+2i of object o: the distance of
\* the field from the object start when the field was written, 0 otherwise
ExpectedOffset(o, slot) ==
    LET i == (slot - 4) \div 2
    IN IF i < EntriesOf(o) /\ o.slots[i + 1] # 0 THEN o.off - o.slots[i + 1] ELSE 0

\* Offset(slot) returned the stored entry for a slot below the length of the
\* vtable and 0 for any other, and read no position outside the vtable
OffsetWithin(j, slot, n, reads) ==
    LET t == TableAt(objs[j].off)
        vlen == GetUnsigned(t.Bytes, VtablePos(t), SizeVOffsetT)
    IN /\ vlen = 4 + 2 * EntriesOf(objs[j])
       /\ n = IF slot < vlen
              THEN GetUnsigned(t.Bytes, VtablePos(t) + slot, SizeVOffsetT) ELSE 0
       /\ \A k \in 1..Len(reads) : reads[k] \in VtablePos(t)..(VtablePos(t) + vlen - 1)

\* C18 as claimed: the same for every slot, odd or even.
C18_Original ==
    op.name = "Offset" => OffsetWithin(op.obj, op.extra, op.n, op.ret)

\* C18: schema evolution on read. For every even slot, Table.Offset(slot)
\* returns the stored 16-bit entry when slot is smaller than the byte length
\* the vtable declares and 0 otherwise, and reads nothing beyond the vtable;
\* for an object whose highest written slot index is k, GetXSlot(4+2i, d)
\* returns d for every i > k.
C18_SchemaEvolution ==
    /\ (op.name = "Offset" /\ op.extra % 2 = 0) =>
           /\ OffsetWithin(op.obj, op.extra, op.n, op.ret)
           /\ op.extra >= 4 => op.n = ExpectedOffset(objs[op.obj], op.extra)
    /\ (op.name = "GetSlot" /\ op.extra >= EntriesOf(objs[op.obj])) => op.n = 9

\* a field beyond the last written one has been read from an object whose
\* second slot was trimmed from the vtable
C18_Witness ==
    /\ op.name = "GetSlot" /\ op.extra = 1 /\ op.n = 9
    /\ objs[op.obj].n = 2 /\ EntriesOf(objs[op.obj]) = 1

\* the whole buffer of the builder as a table, to read at absolute positions
BufferTable == [Bytes |-> Bytes, Pos |-> 0]

\* the references of the open object
OpenRefs == {k \in 1..Len(curWrites) : Len(curWrites[k]) = 4}

\* the 4 bytes written at builder offset at refer to the data at builder
\* offset target: Indirect of their position is the position of the data,
\* in the buffer of the builder and in the finished buffer
RefersTo(at, target) ==
    /\ Indirect(BufferTable, Len(Bytes) - at) = Len(Bytes) - target
    /\ finished =>
          Indirect(TableAt(0), Len(FinishedView) - at) = Len(FinishedView) - target

\* C19: relative references resolve. For every PrependUOffsetT(target) and
\* PrependUOffsetTSlot(i, target, 0) with 0 < target <= Offset(), Indirect of
\* the position of the 4 bytes written is the position of the data whose
\* builder offset was target, whatever padding the call inserted and however
\* the buffer grew afterwards.
C19_References ==
    panicked = "" =>
        /\ op.name = "PrependUOffsetT" => RefersTo(Len(Bytes) - head, op.n)
        /\ objStarted =>
              \A w \in OpenRefs : RefersTo(vtable[curWrites[w][1] + 1], curWrites[w][3])
        /\ \A j \in 1..Len(objs) : \A w \in RefsOf(objs[j]) :
              RefersTo(objs[j].slots[objs[j].writes[w][1] + 1], objs[j].writes[w][3])

\* the reference of the finished object reaches over other data, and the
\* buffer has grown since it was written: it is four times as long as the
\* offset of the reference
C19_Witness ==
    /\ panicked = "" /\ finished /\ Len(objs) = 1
    /\ \E w \in RefsOf(objs[1]) :
          /\ objs[1].slots[objs[1].writes[w][1] + 1] % SizeUOffsetT = 0
          /\ objs[1].writes[w][3] < objs[1].slots[objs[1].writes[w][1] + 1] - SizeUOffsetT
          /\ Len(Bytes) >= 4 * objs[1].slots[objs[1].writes[w][1] + 1]

\* C20: finalized once. After Finish has completed and until Reset, no call
\* that returns changes the byte range FinishedBytes returns.
C20_FinalizedOnce ==
    [][(finished /\ panicked = "" /\ panicked' = "" /\ op'.name # "Reset")
           => FinishedView' = FinishedView]_vars

\* the bytes a builder has written: Bytes[head:]
Written(b) == SubSeq(b.Bytes, b.head + 1, Len(b.Bytes))

GrowthDone ==
    IF op.ok
    THEN /\ op.ret[1] = (IF op.size = 0 THEN 1 ELSE 2 * op.size)
         /\ op.ret[2] - op.extra = op.ret[1] - op.size
    ELSE op.ret = <<op.size, op.extra>>

VtWidths == {1, 4}

VtStartObject ==
    /\ calls.objects < MaxObjects
    /\ StartObjectStep(0..MaxFields) /\ Count("objects")

\* every call sets a field: the value differs from the default
VtPrependSlot ==
    /\ PrependSlotStep(VtWidths, [size \in VtWidths |-> Values(size) \ {0}],
                       [size \in VtWidths |-> {0}], FreeSlots,
                       calls.writes <= MaxSlotWrites)
    /\ Count("writes")

VtEndObject == EndObjectStep /\ UNCHANGED calls

NextVt == VtStartObject \/ VtPrependSlot \/ VtEndObject

SpecVt == InitWith({0}, {0}) /\ [][NextVt]_vars

\* position in Bytes of the vtable that completed object o points to
VtableAt(o) == Len(Bytes) - VtableOf(o)

\* the byte length stored in the vtable of completed object o
VtableBytes(o) == GetUnsigned(Bytes, VtableAt(o), SizeVOffsetT)

\* entry i (from 0) of the vtable of completed object o
VtableEntry(o, i) ==
    GetUnsigned(Bytes, VtableAt(o) + (VtableMetadataFields + i) * SizeVOffsetT, SizeVOffsetT)

SlotSet(o, i) == \E k \in 1..Len(o.writes) : o.writes[k][1] = i

\* one more than the highest slot of o that was set, 0 when none was
HighestSet(o) ==
    IF o.writes = <<>> THEN 0
    ELSE 1 + (CHOOSE i \in 0..(o.n - 1) :
                 SlotSet(o, i) /\ \A j \in (i + 1)..(o.n - 1) : ~SlotSet(o, j))

\* the vtable entry of slot i of object o: the distance of the field from the
\* start of the object, 0 for a slot that was not set
EntryFor(o, i) == IF SlotSet(o, i) THEN o.off - o.slots[i + 1] ELSE 0

\* the vtable at tail offset v of buffer B has K entries, those of object o
HoldsEntries(B, v, o, K) ==
    LET vpos == Len(B) - v
    IN /\ GetUnsigned(B, vpos, SizeVOffsetT) = (VtableMetadataFields + K) * SizeVOffsetT
       /\ \A i \in 0..(K - 1) :
              GetUnsigned(B, vpos + (VtableMetadataFields + i) * SizeVOffsetT,
                          SizeVOffsetT) = EntryFor(o, i)

\* the committed vtables of history vts that match object o in buffer B
MatchesIn(B, vts, o) ==
    {v \in {vts[k] : k \in 1..Len(vts)} : HoldsEntries(B, v, o, HighestSet(o))}

\* the vtable position that the SOffset stored at object o in B resolves to
ResolvesTo(B, o) ==
    (Len(B) - o.off) - GetSigned(B, Len(B) - o.off, SizeSOffsetT)

StoredEntries(o) == (VtableBytes(o) - VtableMetadataFields * SizeVOffsetT) \div SizeVOffsetT

\* C29: dedup soundness. The vtable reached from a completed object has an
\* entry for every slot the object set; each entry is the object's own
\* distance from its start to the field when the object set the slot and 0
\* when it did not, so the set/unset pattern of the vtable is the object's.
C29_DedupSound ==
    panicked = "" =>
        \A j \in 1..Len(objs) :
            /\ StoredEntries(objs[j]) >= HighestSet(objs[j])
            /\ \A i \in 0..(StoredEntries(objs[j]) - 1) :
                   VtableEntry(objs[j], i) = EntryFor(objs[j], i)

\* a second object shares the vtable of the first; its first slot is not set
\* and its second is
C29_Witness ==
    /\ panicked = "" /\ Len(objs) = 2 /\ Len(vtables) = 1
    /\ VtableAt(objs[1]) = VtableAt(objs[2])
    /\ ~SlotSet(objs[2], 0) /\ SlotSet(objs[2], 1)

\* C30: reused vtable. When EndObject finds a committed vtable that matches,
\* the buffer gains the object's 4-byte SOffset and its alignment padding
\* only: Offset() is the offset EndObject returns, the history is unchanged,
\* every byte written before the call is unchanged, and the SOffset stored at
\* the object resolves to a committed vtable that matches.
C30_ReusedVtable ==
    [][(Len(objs') = Len(objs) + 1
        /\ MatchesIn(Bytes', vtables, objs'[Len(objs')]) # {}) =>
          LET o == objs'[Len(objs')]
              before == Len(Bytes) - head
          IN /\ Len(Bytes') - head' = o.off
             /\ o.off % SizeSOffsetT = 0
             /\ o.off - before \in SizeSOffsetT..(2 * SizeSOffsetT - 1)
             /\ vtables' = vtables
             /\ SubSeq(Bytes', Len(Bytes') - before + 1, Len(Bytes'))
                  = SubSeq(Bytes, head + 1, Len(Bytes))
             /\ Len(Bytes') - ResolvesTo(Bytes', o)
                  \in MatchesIn(Bytes', vtables, o)]_vars

\* EndObject has attached a second object, with a field set, to the vtable of
\* the first: the buffer begins with the object
C30_Witness ==
    /\ op.name = "EndObject" /\ panicked = "" /\ Len(objs) = 2 /\ Len(vtables) = 1
    /\ objs[2].writes # <<>>
    /\ Len(Bytes) - head = objs[2].off
    /\ ResolvesTo(Bytes, objs[2]) = Len(Bytes) - vtables[1]

\* a step that is a call of the array builder
IsArrCall(name) == calls'.total = calls.total + 1 /\ op'.name = name

\* the value of element i of builder b: bit i of the data of a BooleanBuilder,
\* BinaryBuilder.Value(i) of a BinaryBuilder
BuilderValue(b, i) ==
    IF b.kind = "bool" THEN BitOf(b.data, i) = 1
    ELSE SubSeq(b.values, b.offsets[i + 1] + 1,
                IF i = b.length - 1 THEN Len(b.values) ELSE b.offsets[i + 2])

\* C24: Reserve. After Reserve(n), Cap() >= Len() + n, and an Append or
\* AppendNull among the next n elements appended triggers no resize; Reserve
\* changes neither Len() nor NullN() nor the validity bit or the value of an
\* element already appended.
C24_Reserve ==
    [][/\ IsArrCall("Reserve") =>
             /\ panicked' = ""
             /\ arr'.capacity >= arr'.length + op'.n
             /\ arr'.length = arr.length /\ arr'.nulls = arr.nulls
             /\ \A i \in 0..(arr.length - 1) :
                    /\ BitOf(arr'.nullBitmap, i) = BitOf(arr.nullBitmap, i)
                    /\ BuilderValue(arr', i) = BuilderValue(arr, i)
       /\ ((IsArrCall("Append") \/ IsArrCall("AppendNull")) /\ room > 0) =>
             /\ panicked' = ""
             /\ arr'.resizes = arr.resizes /\ arr'.capacity = arr.capacity]_vars

\* Reserve(BulkLen) has resized a builder that held an element, and the
\* Append that followed has not resized it again
C24_Witness ==
    /\ panicked = "" /\ op.name = "Append" /\ room = BulkLen - 1
    /\ arr.length = 2 /\ arr.resizes = 2 /\ arr.capacity >= BulkLen + 1

\* array a holds the elements elems, and nothing else
ArrayHolds(a, elems) ==
    /\ a.length = Len(elems)
    /\ a.nulls = Cardinality({k \in 1..Len(elems) : ~elems[k].valid})
    /\ \A i \in 0..(Len(elems) - 1) :
           IF elems[i + 1].valid
           THEN /\ BitOf(a.nullBitmap, i) = 1
                /\ elems[i + 1].v =
                      IF a.kind = "bool" THEN BitOf(a.data, i) = 1
                      ELSE SubSeq(a.values, a.offsets[i + 1] + 1, a.offsets[i + 2])
           ELSE BitOf(a.nullBitmap, i) = 0

\* C25: NewArray. NewArray hands the array the elements and the null count
\* accumulated so far and resets the builder: right after it Len(), NullN()
\* and Cap() are 0, the calls that follow succeed, and every later array
\* holds the elements appended after the NewArray before it and no other.
C25_NewArray ==
    /\ panicked = ""
    /\ op.name = "NewArray" => (arr.length = 0 /\ arr.nulls = 0 /\ arr.capacity = 0)
    /\ \A m \in 1..Len(made) : ArrayHolds(made[m].a, made[m].elems)

\* a second array has been built: it holds one null, the first holds one
\* valid element
C25_Witness ==
    /\ panicked = "" /\ op.name = "NewArray" /\ Len(made) = 2
    /\ made[1].a.length = 1 /\ made[1].a.nulls = 0
    /\ made[2].a.length = 1 /\ made[2].a.nulls = 1

\* C26: AppendValues(v, valid) aborts and leaves the builder as it was when
\* len(valid) is neither 0 nor len(v); otherwise Len() grows by len(v),
\* NullN() by the number of false entries of valid, the validity bit of new
\* element j is valid[j], or 1 when valid is empty, and the bits of the
\* elements appended before are unchanged, at every starting Len().
C26_AppendValues ==
    [][IsArrCall("AppendValues") =>
          IF Len(op'.valid) # 0 /\ Len(op'.valid) # Len(op'.v)
          THEN panicked' # "" /\ arr' = [arr EXCEPT !.err = panicked']
          ELSE /\ panicked' = ""
               /\ arr'.length = arr.length + Len(op'.v)
               /\ arr'.nulls = arr.nulls
                                + Cardinality({k \in 1..Len(op'.valid) : ~op'.valid[k]})
               /\ Len(arr'.nullBitmap) * 8 >= arr'.length
               /\ \A j \in 0..(Len(op'.v) - 1) :
                      BitOf(arr'.nullBitmap, arr.length + j)
                        = IF op'.valid = <<>> \/ op'.valid[j + 1] THEN 1 ELSE 0
               /\ \A i \in 0..(arr.length - 1) :
                      BitOf(arr'.nullBitmap, i) = BitOf(arr.nullBitmap, i)]_vars

\* MaxElems values, some of them null, have been appended from bit 3 of the
\* first byte of the bitmap on, into the second byte
C26_Witness ==
    /\ panicked = "" /\ op.name = "AppendValues" /\ calls.total = 2
    /\ Len(op.v) = MaxElems /\ Len(op.valid) = MaxElems
    /\ arr.length = MaxElems + 3 /\ arr.nulls >= 3

\* every goroutine has returned from Release
AllReleased == \A g \in 1..Len(rel.pc) : rel.pc[g] = "done"

\* C27: reference counting under concurrency. When k goroutines call Release
\* on a builder whose count is k, in every interleaving each buffer of the
\* builder is released once, by the call whose decrement gave 0 and so not
\* before all k decrements, and no assertion fails.
C27_ReleaseOnce ==
    rel # NoRelease =>
        /\ panicked = ""
        /\ arr.refCount >= 0
        /\ \A j \in 1..Len(rel.freed), k \in 1..Len(rel.freed) :
               rel.freed[j][1] = rel.freed[k][1] => j = k
        /\ \A j \in 1..Len(rel.freed) : rel.added[rel.freed[j][2]] = 0
        /\ rel.freed # <<>> => arr.refCount = 0
        /\ AllReleased =>
               /\ arr.refCount = 0
               /\ {rel.freed[j][1] : j \in 1..Len(rel.freed)} = rel.held
               /\ HeldBuffers(arr) = {}

\* MaxCalls + 1 goroutines have returned from Release; the one that freed the
\* buffers had read the count before any other had decremented it
C27_Witness ==
    /\ rel # NoRelease /\ AllReleased /\ rel.count = MaxCalls + 1
    /\ Cardinality(rel.held) >= 2 /\ Len(rel.freed) = Cardinality(rel.held)
    /\ rel.loaded[rel.freed[1][2]] = rel.count

\* C31: vector alignment. After StartVector(elemSize, numElems, alignment) with
\* alignment a power of two, a payload of exactly elemSize * numElems bytes and
\* EndVector: the first element lies at a multiple of alignment and of 4 from
\* the end of the buffer, the 4-byte length precedes it without padding and at
\* a multiple of 4, and neither a payload write nor the length write finds the
\* room missing.
C31_VectorAlignment ==
    [][/\ (VecOpen /\ op'.name = "PlaceElement") =>
              /\ panicked' = "" /\ head' >= 0
              /\ Len(Bytes') = Len(Bytes)
       /\ (VecOpen /\ VecWritten = op.extra /\ op'.name = "EndVector") =>
              LET first == Len(Bytes) - head
              IN /\ panicked' = "" /\ head' >= 0
                 /\ Len(Bytes') = Len(Bytes)
                 /\ first % op.size = 0 /\ first % SizeUOffsetT = 0
                 /\ Len(Bytes') - head' = first + SizeUOffsetT
                 /\ GetUnsigned(Bytes', head', SizeUOffsetT) = op'.size
                 /\ \A k \in head + 1..Len(Bytes) : Bytes'[k] = Bytes[k]
                 /\ ~nested'
                 /\ items' # <<>> /\ items'[Len(items')].off = first + SizeUOffsetT
      ]_vars

\* a vector of 8 payload bytes aligned to 16 or 8 was completed after a raw
\* byte: padding lies between the byte and the payload
C31_Witness ==
    /\ op.name = "EndVector" /\ panicked = "" /\ calls.raw > 0
    /\ Len(Bytes) - head = 20
    /\ Bytes[Len(Bytes)] # 0 /\ Bytes[Len(Bytes) - 1] = 0
    /\ Bytes[head + 5] # 0 /\ Bytes[head + 12] # 0
    /\ GetUnsigned(Bytes, head, SizeUOffsetT) = 3

\* C32: object size. The object-size field (second 16-bit element) of the
\* vtable that a completed object points to, new or reused, is the object's own
\* size objectOffset - objectEnd, alignment padding after StartObject included.
C32_ObjectSize ==
    panicked = "" =>
        \A j \in 1..Len(objs) :
            GetUnsigned(Bytes, VtableAt(objs[j]) + SizeVOffsetT, SizeVOffsetT)
                = objs[j].off - objs[j].start

\* C33: no 16-bit overflow. The field offsets, the object size and the vtable
\* length that EndObject stores in a new vtable are the values computed in 32
\* bits: objectOffset - fieldOffset (0 for an unset field), objectOffset -
\* objectEnd and 2 * (K + 2); none is stored reduced modulo 2^16.
C33_NoOverflow ==
    (panicked = "" /\ Len(objs) = 1 /\ Len(vtables) = 1) =>
        LET o == objs[1]
            K == HighestSet(o)
        IN /\ VtableBytes(o) = (VtableMetadataFields + K) * SizeVOffsetT
           /\ GetUnsigned(Bytes, VtableAt(o) + SizeVOffsetT, SizeVOffsetT) = o.off - o.start
           /\ \A i \in 0..(K - 1) : VtableEntry(o, i) = EntryFor(o, i)

\* C34: start and end calls are matched by kind. EndVector called while an
\* object is open (right after StartObject) and EndObject called while a vector
\* is open (right after StartVector) abort and do not close the construct.
C34_MatchedEnds ==
    [][/\ (op.name = "StartObject" /\ panicked = "" /\ op'.name = "EndVector") =>
              (panicked' # "" /\ nested')
       /\ (op.name = "StartVector" /\ panicked = "" /\ op'.name = "EndObject") =>
              (panicked' # "" /\ nested')
      ]_vars

EntryBytes(v) ==
    SubSeq(Bytes, Len(Bytes) - v + VtableMetadataFields * SizeVOffsetT + 1,
           Len(Bytes) - v + GetUnsigned(Bytes, Len(Bytes) - v, SizeVOffsetT))

\* C36: the dedup history holds no duplicate. Every offset of the history
\* designates a vtable inside the valid range whose first element is its byte
\* length, even and at least 4; the offsets are strictly increasing; two
\* recorded vtables differ in length or in at least one field entry.
C36_DistinctVtables ==
    panicked = "" =>
        /\ \A k \in 1..Len(vtables) :
               /\ vtables[k] >= VtableMetadataFields * SizeVOffsetT
               /\ vtables[k] <= Len(Bytes) - head
               /\ LET len == GetUnsigned(Bytes, Len(Bytes) - vtables[k], SizeVOffsetT)
                  IN len % SizeVOffsetT = 0
                     /\ len >= VtableMetadataFields * SizeVOffsetT
                     /\ len <= vtables[k]
        /\ \A k \in 1..Len(vtables), l \in 1..Len(vtables) :
               k < l => /\ vtables[k] < vtables[l]
                        /\ EntryBytes(vtables[k]) # EntryBytes(vtables[l])

\* the positions below Len() whose validity bit is 0
NullBits(b) == {i \in 0..(b.length - 1) : BitOf(b.nullBitmap, i) = 0}

\* C37: null count. After every sequence of Append, AppendNull, AppendValues,
\* Reserve, Resize and NewArray calls, 0 <= NullN() <= Len() <= Cap() and
\* NullN() is the number of positions below Len() whose validity bit is 0; the
\* element added by AppendNull has validity bit 0, also after a Resize that
\* shrank the builder below its length.
C37_NullCount ==
    panicked = "" =>
        /\ 0 <= arr.nulls /\ arr.nulls <= arr.length /\ arr.length <= arr.capacity
        /\ arr.length <= 8 * Len(arr.nullBitmap)
        /\ arr.nulls = Cardinality(NullBits(arr))
        /\ op.name = "AppendNull" => BitOf(arr.nullBitmap, arr.length - 1) = 0

\* the bytes of the first k elements of elems together
RECURSIVE TotalBytes(_, _)
TotalBytes(elems, k) ==
    IF k = 0 THEN 0
    ELSE TotalBytes(elems, k - 1) + (IF elems[k].valid THEN Len(elems[k].v) ELSE 0)

\* C38: BinaryBuilder values. After any sequence of Append(v) and AppendNull()
\* calls, Value(i) is the i-th value appended, and the empty slice for a null;
\* there is one start offset per element, the offsets lie within the values
\* and are non-decreasing, and DataLen() is the sum of the lengths of the values appended.
C38_BinaryValues ==
    panicked = "" =>
        /\ arr.length = Len(hist)
        /\ Len(arr.offsets) = arr.length
        /\ \A i \in 1..Len(arr.offsets) : arr.offsets[i] \in 0..DataLen(arr)
        /\ \A i \in 0..(arr.length - 1) :
               /\ Value(arr, i) = IF hist[i + 1].valid THEN hist[i + 1].v ELSE <<>>
               /\ BitOf(arr.nullBitmap, i) = IF hist[i + 1].valid THEN 1 ELSE 0
        /\ \A i \in 1..Len(arr.offsets), j \in 1..Len(arr.offsets) :
               i < j => arr.offsets[i] <= arr.offsets[j]
        /\ DataLen(arr) = TotalBytes(hist, Len(hist))

\* two bytes, a null, one byte and an empty value were appended in this order
C38_Witness ==
    /\ panicked = "" /\ arr.kind = "binary" /\ arr.length = 4
    /\ hist[1] = Elem(TRUE, <<1, 2>>) /\ ~hist[2].valid
    /\ hist[3] = Elem(TRUE, <<7>>) /\ hist[4] = Elem(TRUE, <<>>)
    /\ arr.offsets = <<0, 2, 2, 3>> /\ DataLen(arr) = 3
    /\ Value(arr, 1) = <<>> /\ Value(arr, 2) = <<7>>

====
